---- MODULE Spec2Model ----
(***************************************************************************)
(* The judge pipeline of judge.py: a resumable multi-phase state machine   *)
(* (fork, PR, comment, poll, report, export) over a state file.            *)
(*                                                                         *)
(* One process runs at a time.  `state` is the dict held by the running    *)
(* process, `disk` is the content of judge_state.json.  Every phase walks  *)
(* the users of precomputed.json in file order; one step of the model is   *)
(* one loop iteration up to its save_state call, and save_state is a step  *)
(* of its own, so that the process can be terminated between the two.      *)
(* STATE_FILE.write_text is taken to be atomic.                            *)
(*                                                                         *)
(* create_base_branch, parse_coderabbit_response, curve_grades (export.py) *)
(* and find_worst_commit (toxicity.py) are also studied alone, each in a   *)
(* specification that calls it once on every input of a bounded set.       *)
(***************************************************************************)
EXTENDS Integers, Sequences, FiniteSets, TLC

\* ------------------------------------------------------------------ bounds
NumUsers == 2
MaxPR == 2
MaxPrompts == 2
MaxComments == 2

MaxCommits == 3
MaxPieces == 3
MaxCurved == 3
MaxTexts == 2
MaxScore == 2
MaxLen == 65
NumTokens == 2
MaxTime == 4
MaxCool == 2
MaxName == 2
MaxBatch == 2
MaxCached == 2

\* ------------------------------------------------------- program constants
POLL_INTERVAL == 30
POLL_TIMEOUT == 600
MIN_BODY_LEN == 200
batch_size == 32
MAX_RETRIES == 5
INITIAL_BACKOFF == 1
ONE_SECOND == 2

Users == 1..NumUsers

\* ------------------------------------------------------------------ state
VARIABLES
  precomputed,     \* precomputed.json: user -> [top_repos]
  upstream,        \* GitHub: the user's top repository exists and is public
  prompts,         \* GitHub: judging prompts successfully posted on the user's PR
  notfound,        \* users whose fork request was answered 404
  state,           \* the running process's state dict (user -> entry)
  disk,            \* judge_state.json
  mode,            \* "idle", or the --phase argument of the running process
  phase,           \* the phase function being executed
  pc,              \* position inside the phase function
  i,               \* index of the loop over precomputed
  pending,         \* phase_poll: pending
  still_pending,   \* phase_poll: still_pending
  todo,            \* phase_poll: users of pending the current round has yet to visit
  elapsed,         \* phase_poll: time.time() - start
  net,             \* requests issued by the last step
  who,             \* the user the last step worked for (0: none)
  outcome,         \* how the last step's work for that user ended
  seen,            \* the comment list the last poll step received (when recorded)
  pulls,           \* GitHub: numbers of the open PRs from the fork's default
                   \* branch into the baseline branch (user -> set)
  arg,             \* the input of the function under study (<< >>: none)
  ret,             \* what it returned (<< >>: not called yet)
  tokens,          \* scraper.py: the credentials of GITHUB_TOKENS
  token_cycle,     \* the index in tokens of the credential next(token_cycle) gives
  token_cooldowns, \* the dict token -> reset time, as a set of [token, until]
  clock,           \* time.time(), in ticks of INITIAL_BACKOFF
  gq,              \* the call of graphql in progress
  limits,          \* credential -> the reset time of the last response to a
                   \* request made with it that reported no quota left, as a
                   \* set of [token, until]
  db,              \* api.py: scrape_results.json, a dict as a set of [key, data]
  existing,        \* precompute.py: precomputed.json, a dict as a set of [key, data]
  reply,           \* what the last request or run answered and stored
  run              \* precompute.py: the locals of main() while it runs

vars == <<precomputed, upstream, prompts, notfound, state, disk, mode, phase, pc, i,
          pending, still_pending, todo, elapsed, net, who, outcome, seen,
          pulls, arg, ret,
          tokens, token_cycle, token_cooldowns, clock, gq, limits,
          db, existing, reply, run>>

world == <<precomputed, upstream, notfound, pulls>>
pollvars == <<pending, still_pending, todo, elapsed>>
tokenvars == <<tokens, token_cycle, token_cooldowns, clock, gq, limits>>
cachevars == <<db, existing, reply, run>>
svcvars == <<tokenvars, cachevars>>

\* No call of graphql has been made and no credential is configured.
NoCall ==
  [pc |-> "idle", attempt |-> 0, token |-> << >>, wait |-> 0, requests |-> 0,
   status |-> 0, errors |-> "", error |-> "", payload |-> ""]

NoTokens ==
  /\ tokens = << >> /\ token_cycle = 1 /\ token_cooldowns = {}
  /\ clock = 0 /\ gq = NoCall /\ limits = {}

\* No request has been answered.
NoReply ==
  [op |-> "none", username |-> << >>, status |-> "", code |-> 0, data |-> << >>,
   results |-> << >>, stored |-> {}]

\* precompute.main is not running.
NoRun ==
  [pc |-> "none", usernames |-> << >>, k |-> 0, existing |-> {},
   existing_lower |-> {}, attempts |-> << >>]

NoCache == db = {} /\ existing = {} /\ reply = NoReply /\ run = NoRun

NoService == NoTokens /\ NoCache

\* ------------------------------------------------------------ data values
\* A state entry.  An absent key is the falsy value of its type: "" for the
\* strings, 0 for the PR number, FALSE for the flags, << >> for result and
\* raw_response (a one-element sequence when present).
NoEntry ==
  [fork_name |-> "", repo_name |-> "", error |-> "",
   pr_number |-> 0, default_branch |-> "",
   comment_posted |-> FALSE, comment_time |-> "",
   response_parsed |-> FALSE, result |-> << >>, raw_response |-> << >>]

\* "Pending review" followed by the character U+2026 (judge.py 416, 498, 581),
\* which is not the "Pending review..." of judge.py 383.
NO_ROAST == "Pending review(U+2026)"

\* The placeholder written on timeout (judge.py 496-500) and used by export.
Placeholder ==
  [quality_grade |-> "Pending", verdict |-> NO_ROAST,
   coderabbit_badge |-> "Unknown"]

\* ------------------------------------------------ the text of a reply
\* A JSON value of a fenced block: its type and, for a string or a number,
\* its text.  Absent stands for a key the object does not have.
JStr(s) == [t |-> "string", s |-> s]
JNum(s) == [t |-> "number", s |-> s]
JNull == [t |-> "null", s |-> ""]
Absent == [t |-> "absent", s |-> ""]

\* str(value) of Python on these values.
str(v) == IF v.t = "null" THEN "None" ELSE v.s

\* data.get(key, default) (judge.py 382-384).
get(v, default) == IF v.t = "absent" THEN JStr(default) ELSE v

NoObject == [grade |-> Absent, verdict |-> Absent, badge |-> Absent]

\* A body is a sequence of pieces of text, each of which one pattern of the
\* parser matches and no other:
\*   fence     a ```json block; s says what json.loads makes of its content:
\*             "invalid" (JSONDecodeError), "nonobject" (a list, a string, a
\*             number or null) or "object", obj then holding its three keys
\*   bold      **Grade**: C-, **Verdict**: "..." or **Badge**: "...", s being
\*             the captured group
\*   loose     Grade: D, Verdict: "..." or Badge: ..., s the captured group
\*   sentence  a sentence between two "[.!]\s"; f = "roast" when it is longer
\*             than 30 characters and starts with none of "I", "The PR",
\*             "This pull", "Here".  The other pieces are no such sentence.
Fence(kind, obj) == [k |-> "fence", f |-> "", s |-> kind, obj |-> obj]
Bold(field, s) == [k |-> "bold", f |-> field, s |-> s, obj |-> NoObject]
Loose(field, s) == [k |-> "loose", f |-> field, s |-> s, obj |-> NoObject]
Sentence(f, s) == [k |-> "sentence", f |-> f, s |-> s, obj |-> NoObject]

\* The patterns of the parser, by the pieces they match.
json_re == [k |-> "fence", f |-> ""]
bold_grade_re == [k |-> "bold", f |-> "grade"]
bold_verdict_re == [k |-> "bold", f |-> "verdict"]
bold_badge_re == [k |-> "bold", f |-> "badge"]
loose_grade_re == [k |-> "loose", f |-> "grade"]
loose_verdict_re == [k |-> "loose", f |-> "verdict"]
loose_badge_re == [k |-> "loose", f |-> "badge"]
roast_re == [k |-> "sentence", f |-> "roast"]

matches(pattern, x) == x.k = pattern.k /\ x.f = pattern.f

\* re.search: the index of the leftmost piece the pattern matches (0: None).
RECURSIVE search_from(_, _, _)
search_from(pattern, body, k) ==
  IF k > Len(body) THEN 0
  ELSE IF matches(pattern, body[k]) THEN k
  ELSE search_from(pattern, body, k + 1)

search_last(pattern, body) ==
  IF \E k \in 1..Len(body) : matches(pattern, body[k])
  THEN CHOOSE k \in 1..Len(body) :
         matches(pattern, body[k]) /\ \A j \in (k+1)..Len(body) : ~matches(pattern, body[j])
  ELSE 0
search(pattern, body) == search_from(pattern, body, 1)

is_fence(x) == matches(json_re, x)
is_bold_grade(x) == matches(bold_grade_re, x)
is_loose_grade(x) == matches(loose_grade_re, x)

\* s.strip() and s[:200] on the texts of the model.
strip(s) == IF s = "bold badge " THEN "bold badge" ELSE s
first200(s) == IF s = "long roast" THEN "long roas" ELSE s

\* extract_first_roast (judge.py 409-416).
extract_first_roast(body) ==
  LET k == search(roast_re, body)
  IN IF k # 0 THEN first200(body[k].s) ELSE NO_ROAST

\* parse_coderabbit_response raises: the first fenced block holds a JSON value
\* that is not an object, so that data.get raises AttributeError, which the
\* `except json.JSONDecodeError` (judge.py 386) does not catch.
parse_raises(body) ==
  LET m == search(json_re, body)
  IN m # 0 /\ body[m].s = "nonobject"

\* A match of the bold pattern, else of the loose one (judge.py 390-400).
labelled_loose_first(bold, loose, body) ==
  IF search(loose, body) # 0 THEN search(loose, body) ELSE search(bold, body)
labelled(bold, loose, body) ==
  IF search(bold, body) # 0 THEN search(bold, body) ELSE search(loose, body)

\* parse_coderabbit_response (judge.py 374-406), where it does not raise.
parse_coderabbit_response(body) ==
  LET json_match == search(json_re, body)
      grade == labelled(bold_grade_re, loose_grade_re, body)
      verdict == labelled(bold_verdict_re, loose_verdict_re, body)
      badge == labelled(bold_badge_re, loose_badge_re, body)
  IN IF json_match # 0 /\ body[json_match].s = "object"
     THEN LET data == body[json_match].obj
          IN [quality_grade |-> str(get(data.grade, "Pending")),
              verdict |-> str(get(data.verdict, "Pending review...")),
              coderabbit_badge |-> str(get(data.badge, "Unknown"))]
     ELSE [quality_grade |-> IF grade # 0 THEN body[grade].s ELSE "Pending",
           verdict |-> IF verdict # 0 THEN strip(body[verdict].s)
                       ELSE extract_first_roast(body),
           coderabbit_badge |-> IF badge # 0 THEN strip(body[badge].s) ELSE "Unknown"]

\* The replies of the bodies below: the fenced triple of the judging prompt,
\* a reply in plain words, and a fenced JSON list.
JsonReply == <<Fence("object", [grade |-> JStr("B+"), verdict |-> JStr("x"),
                                  badge |-> JStr("y")])>>
TextReply == <<Sentence("", "I am a rabbit")>>
NonObjectReply == <<Fence("nonobject", NoObject)>>

\* Comment bodies, by the three things phase_poll and the parser look at:
\* the length, whether a skip phrase occurs, and the text of the reply.
Bodies ==
  { [len |-> 199, phrase |-> FALSE, text |-> JsonReply],
    [len |-> 200, phrase |-> TRUE,  text |-> JsonReply],
    [len |-> 200, phrase |-> FALSE, text |-> JsonReply],
    [len |-> 201, phrase |-> FALSE, text |-> TextReply],
    [len |-> 200, phrase |-> FALSE, text |-> NonObjectReply] }

Logins == {"coderabbitai[bot]", "CodeRabbitAI", "octocat"}

Comments == [login : Logins, body : Bodies]

RECURSIVE SeqsUpTo(_, _)
SeqsUpTo(S, n) ==
  IF n = 0 THEN { << >> }
  ELSE LET shorter == SeqsUpTo(S, n - 1)
       IN shorter \cup { Append(s, x) : s \in { t \in shorter : Len(t) = n - 1 }, x \in S }

CommentLists == SeqsUpTo(Comments, MaxComments)

\* str.lower() on the logins of the model.
lower(login) ==
  CASE login = "CodeRabbitAI" -> "coderabbitai"
    [] OTHER -> login

\* `"coderabbit" in s` on the (lowercased or raw) logins of the model.
contains_coderabbit(s) == s \in {"coderabbitai[bot]", "coderabbitai"}


\* ------------------------------------------------------------- predicates
TypeOK ==
  /\ precomputed \in [Users -> [top_repos : {<< >>, <<"repo">>}]]
  /\ upstream \in [Users -> BOOLEAN]
  /\ prompts \in [Users -> 0..MaxPrompts]
  /\ notfound \subseteq Users
  /\ DOMAIN state = Users /\ DOMAIN disk = Users
  /\ \A u \in Users : state[u].pr_number \in 0..MaxPR /\ disk[u].pr_number \in 0..MaxPR
  /\ mode \in {"idle", "fork", "pr", "comment", "poll", "report", "all"}
  /\ phase \in {"none", "fork", "pr", "comment", "poll", "report", "export"}
  /\ i \in 0..(NumUsers + 1)
  /\ pending \subseteq Users /\ still_pending \subseteq Users /\ todo \subseteq Users
  /\ elapsed \in 0..POLL_TIMEOUT
  /\ who \in 0..NumUsers
  /\ seen \in CommentLists
  /\ pulls \in [Users -> SUBSET (1..MaxPR)]

Min(S) == CHOOSE x \in S : \A y \in S : x <= y

\* ---------------------------------------------------------------- main()
\* phases[args.phase] (judge.py 613-620).
phases(m) ==
  IF m = "all" THEN <<"fork", "pr", "comment", "poll", "report">> ELSE <<m>>

\* The function main() calls after phase p: the next phase function of the
\* list, then export_results (judge.py 622-625).
next_phase(m, p) ==
  LET ps == phases(m)
      k == CHOOSE n \in 1..Len(ps) : ps[n] = p
  IN IF k < Len(ps) THEN ps[k + 1] ELSE "export"

\* Control enters phase function p.
Enter(p) ==
  /\ phase' = p
  /\ pc' = IF p \in {"pr", "comment"} THEN "loop" ELSE "start"
  /\ i' = 1
  /\ pending' = {} /\ still_pending' = {} /\ todo' = {} /\ elapsed' = 0

\* No process is running.
Stopped ==
  /\ mode' = "idle" /\ phase' = "none" /\ pc' = "none" /\ i' = 0
  /\ pending' = {} /\ still_pending' = {} /\ todo' = {} /\ elapsed' = 0
  /\ state' = disk

Obs(n, w, o) ==
  /\ net' = n /\ who' = w /\ outcome' = o /\ seen' = << >>
  /\ UNCHANGED <<arg, ret, svcvars>>

\* load_state (judge.py 129-132).
load_state_empty(file) == [u \in Users |-> NoEntry]
load_state(file) == file

\* save_state (judge.py 135-136): what the file holds afterwards.
save_state_nothing(s, file) == file
save_state(s, file) == s

\* main() up to the first phase function: parse --phase, load the state.
main_start ==
  /\ mode = "idle"
  /\ \E m \in {"fork", "pr", "comment", "poll", "report", "all"} :
       /\ mode' = m
       /\ Enter(phases(m)[1])
  /\ state' = load_state(disk)
  /\ Obs({}, 0, "none")
  /\ UNCHANGED <<world, prompts, disk>>

\* An uncaught exception leaves the phase function and main(): the process
\* ends with a traceback, export_results is not reached.
Raise(n, w) ==
  /\ Stopped
  /\ Obs(n, w, "raised")
  /\ UNCHANGED <<world, prompts, disk>>

\* The process is terminated from outside (kill, power loss).
Terminate ==
  /\ mode # "idle"
  /\ Stopped
  /\ Obs({}, 0, "killed")
  /\ UNCHANGED <<world, prompts, disk>>

\* A phase function returns; main() calls the next one.
phase_return ==
  /\ \/ phase \in {"fork", "pr", "comment"} /\ pc = "loop" /\ i > NumUsers
     \/ phase = "poll" /\ pc = "return"
  /\ Enter(next_phase(mode, phase))
  /\ Obs({}, 0, "none")
  /\ UNCHANGED <<world, prompts, state, disk, mode>>

\* The save_state(state) that ends a loop iteration of phase_fork, phase_pr
\* and phase_comment (judge.py 192, 323, 365).
loop_save ==
  /\ phase \in {"fork", "pr", "comment"} /\ pc = "save"
  /\ disk' = save_state(state, disk)
  /\ pc' = "loop" /\ i' = i + 1
  /\ Obs({}, 0, "none")
  /\ UNCHANGED <<world, prompts, state, mode, phase, pollvars>>

\* A loop iteration that ends in `continue`.
Continue(n, o) ==
  /\ i' = i + 1
  /\ Obs(n, i, o)
  /\ UNCHANGED <<world, prompts, state, disk, mode, phase, pc, pollvars>>

\* ------------------------------------------------------------ phase 1: fork
\* get_auth_user (judge.py 119-123), first statement of phase_fork: raises
\* on a network error and on an error status (raise_for_status).
get_auth_user ==
  /\ phase = "fork" /\ pc = "start"
  /\ \/ /\ pc' = "loop"
        /\ Obs({"GET /user"}, 0, "ok")
        /\ UNCHANGED <<world, prompts, state, disk, mode, phase, i, pollvars>>
     \/ Raise({"GET /user"}, 0)

\* judge.py 172: the idempotence check of phase_fork.
fork_skip_never(us) == FALSE
fork_skip(us) == us.fork_name # ""

\* How a call of fork_repo can go, given whether the repository exists.
fork_outcomes(exists) ==
  IF exists THEN {"reused", "created", "failed", "raised"}
  ELSE {"notfound", "failed", "raised"}

\* fork_repo (judge.py 142-160): the fork's full_name, or "" for None.
fork_repo(o) == IF o \in {"reused", "created"} THEN "fork" ELSE ""

\* The requests fork_repo issues.
fork_requests(o) ==
  IF o = "reused" THEN {"GET /repos/{auth_user}/{repo}"}
  ELSE {"GET /repos/{auth_user}/{repo}", "POST /repos/{owner}/{repo}/forks"}

\* judge.py 184-190: what phase_fork writes into the user's entry.
fork_write(us, fork_name, repo_name) ==
  IF fork_name # ""
  THEN [us EXCEPT !.fork_name = fork_name, !.repo_name = repo_name]
  ELSE [us EXCEPT !.error = "fork_failed"]

\* One iteration of the loop of phase_fork (judge.py 170-190).
phase_fork_user ==
  /\ phase = "fork" /\ pc = "loop" /\ i <= NumUsers
  /\ LET us == state[i]
         top_repos == precomputed[i].top_repos
     IN IF fork_skip(us) \/ top_repos = << >>
        THEN Continue({}, "none")
        ELSE \E o \in fork_outcomes(upstream[i]) :
               IF o = "raised"
               THEN Raise(fork_requests(o), i)
               ELSE /\ state' = [state EXCEPT ![i] = fork_write(us, fork_repo(o), top_repos[1])]
                    /\ notfound' = IF o = "notfound" THEN notfound \cup {i} ELSE notfound
                    /\ pc' = "save"
                    /\ Obs(fork_requests(o), i,
                           IF o = "notfound" THEN "not_found"
                           ELSE IF fork_repo(o) = "" THEN "api_fail" ELSE "ok")
                    /\ UNCHANGED <<precomputed, upstream, pulls, prompts, disk, mode,
                                   phase, i, pollvars>>


\* -------------------------------------------------------------- phase 2: PR
\* judge.py 293-297: users without a fork, or with a PR already, are skipped.
pr_skip_no_fork_test(us) == us.pr_number # 0
pr_skip_no_pr_test(us) == us.fork_name = ""
pr_skip(us) == us.fork_name = "" \/ us.pr_number # 0

\* prs[0] of the listing (judge.py 265): GitHub lists the newest PR first.
first_listed(open) == CHOOSE n \in open : \A m \in open : m <= n

\* create_pr (judge.py 252-282).  `open` is the set of open PRs from the
\* default branch into the baseline branch, list_ok says that the listing
\* request was answered 200, post is the number of the PR the creation request
\* opens (0: it is answered with something else than 200 or 201).  Returns the
\* function's value (0: None), the creation request it issued, and the PR that
\* request opened.
create_pr(open, list_ok, post) ==
  IF list_ok /\ open # {}
  THEN [number |-> first_listed(open), posted |-> FALSE, created |-> 0]
  ELSE [number |-> post, posted |-> TRUE, created |-> post]

\* How the body of the loop of phase_pr can go (judge.py 301-321):
\*   notready  GET /repos/{fork_name} is not 200: continue
\*   nobranch  create_base_branch returns None: continue
\*   create_pr create_pr is called; the listing is answered 200 or not, and
\*             the creation request, if issued, opens PR number `post` or fails
\*   raised    a request raises
\* GitHub refuses a second open PR for the same head and base (422), and a PR
\* stays open: nobody closes or merges it while the judge runs.
pr_outcomes(open) ==
  [kind : {"notready", "nobranch", "raised"}, list_ok : {FALSE}, post : {0}]
    \cup [kind : {"create_pr"}, list_ok : BOOLEAN,
          post : {0} \cup (IF open = {} THEN 1..MaxPR ELSE {})]

\* The requests of one iteration of phase_pr.
pr_requests(o, open) ==
  {"GET /repos/{fork_name}"}
    \cup (IF o.kind = "notready" THEN {}
          ELSE {"GET /repos/{fork_name}/commits", "POST /repos/{fork_name}/git/refs"})
    \cup (IF o.kind = "create_pr"
          THEN {"GET /repos/{fork_name}/pulls"}
                 \cup (IF create_pr(open, o.list_ok, o.post).posted
                       THEN {"POST /repos/{fork_name}/pulls"} ELSE {})
          ELSE {})

\* judge.py 316-319: what phase_pr writes into the user's entry.
pr_write_clears_error(us, pr_num, default_branch) ==
  IF pr_num # 0
  THEN [us EXCEPT !.pr_number = pr_num, !.default_branch = default_branch, !.error = ""]
  ELSE us
pr_write(us, pr_num, default_branch) ==
  IF pr_num # 0
  THEN [us EXCEPT !.pr_number = pr_num, !.default_branch = default_branch]
  ELSE us

\* One iteration of the loop of phase_pr (judge.py 291-321).
phase_pr_user ==
  /\ phase = "pr" /\ pc = "loop" /\ i <= NumUsers
  /\ LET us == state[i]
         open == pulls[i]
     IN IF pr_skip(us)
        THEN Continue({}, "none")
        ELSE \E o \in pr_outcomes(open) :
               CASE o.kind = "raised" -> Raise(pr_requests(o, open), i)
                 [] o.kind \in {"notready", "nobranch"} ->
                      Continue(pr_requests(o, open), "api_fail")
                 [] OTHER ->
                      LET r == create_pr(open, o.list_ok, o.post)
                      IN /\ state' = [state EXCEPT ![i] = pr_write(us, r.number, "main")]
                         /\ pulls' = [pulls EXCEPT ![i] =
                                        IF r.created # 0 THEN @ \cup {r.created} ELSE @]
                         /\ pc' = "save"
                         /\ Obs(pr_requests(o, open), i,
                                IF r.number # 0 THEN "ok" ELSE "api_fail")
                         /\ UNCHANGED <<precomputed, upstream, notfound, prompts, disk,
                                        mode, phase, i, pollvars>>

\* --------------------------------------------------------- phase 3: comment
\* judge.py 340-343: users without a PR, or commented already, are skipped.
comment_skip_no_pr_test(us) == us.comment_posted
comment_skip(us) == us.pr_number = 0 \/ us.comment_posted

\* judge.py 358-361: what phase_comment writes after a 200/201.
comment_write(us, now) ==
  [us EXCEPT !.comment_posted = TRUE, !.comment_time = now]

\* One iteration of the loop of phase_comment (judge.py 338-363): the trigger
\* comment (its response is not looked at), then the judging prompt.
phase_comment_user ==
  /\ phase = "comment" /\ pc = "loop" /\ i <= NumUsers
  /\ LET us == state[i]
         reqs == {"POST /repos/{fork_name}/issues/{pr_number}/comments"}
     IN IF comment_skip(us)
        THEN Continue({}, "none")
        ELSE \/ Raise(reqs, i)
             \/ /\ prompts[i] < MaxPrompts
                /\ prompts' = [prompts EXCEPT ![i] = @ + 1]
                /\ state' = [state EXCEPT ![i] = comment_write(us, "now")]
                /\ pc' = "save"
                /\ Obs(reqs, i, "ok")
                /\ UNCHANGED <<world, disk, mode, phase, i, pollvars>>
             \/ /\ pc' = "save"
                /\ Obs(reqs, i, "api_fail")
                /\ UNCHANGED <<world, prompts, state, disk, mode, phase, i, pollvars>>


\* ------------------------------------------------------------ phase 4: poll
\* judge.py 428-431: the users phase_poll waits for.
poll_pending_commented(us) == us.comment_posted
poll_pending(us) == us.comment_posted /\ ~us.response_parsed

\* judge.py 457-472: the three `continue` tests on one comment.
accepts_longer_only(comment) ==
  LET login == lower(comment.login)
      body == comment.body
  IN /\ contains_coderabbit(login)
     /\ ~body.phrase
     /\ ~(body.len <= MIN_BODY_LEN)

accepts(comment) ==
  LET login == lower(comment.login)
      body == comment.body
  IN /\ contains_coderabbit(login)
     /\ ~body.phrase
     /\ ~(body.len < MIN_BODY_LEN)

\* judge.py 456-482: the index of the comment the scan stops at (found), or 0.
RECURSIVE scan_from(_, _)
scan_from(comments, k) ==
  IF k > Len(comments) THEN 0
  ELSE IF accepts(comments[k]) THEN k
  ELSE scan_from(comments, k + 1)

scan(comments) == scan_from(comments, 1)

\* One comment list for every way the scan can end (nothing found, or found
\* with a given body): what a poll step does depends on the list only
\* through that.
scan_result(comments) ==
  IF scan(comments) = 0 THEN << >> ELSE <<comments[scan(comments)].body>>

ListsByScan ==
  { CHOOSE cl \in CommentLists : scan_result(cl) = r :
      r \in { scan_result(cl) : cl \in CommentLists } }

\* judge.py 477-479: what phase_poll writes on the comment it stops at.
poll_write(us, body) ==
  [us EXCEPT !.response_parsed = TRUE,
             !.result = <<parse_coderabbit_response(body.text)>>,
             !.raw_response = <<body>>]

\* judge.py 496-500: what phase_poll writes for a user it timed out on.
timeout_write_terminal(us) ==
  [us EXCEPT !.result = <<Placeholder>>, !.response_parsed = TRUE]
timeout_write(us) == [us EXCEPT !.result = <<Placeholder>>]

\* judge.py 441: the test of the while loop.
poll_continues(p, t) == p # {} /\ t < POLL_TIMEOUT

\* judge.py 491: the clock after the sleep that ends a round.
clock_stuck(t) == t
sleep(t) == t + POLL_INTERVAL

\* judge.py 425-439: collect the pending users; return when there are none.
phase_poll_start ==
  /\ phase = "poll" /\ pc = "start"
  /\ LET p == {u \in Users : poll_pending(state[u])}
     IN /\ pending' = p /\ todo' = p /\ still_pending' = {}
        /\ pc' = IF p = {} THEN "return" ELSE "round"
  /\ elapsed' = 0
  /\ Obs({}, 0, "none")
  /\ UNCHANGED <<world, prompts, state, disk, mode, phase, i>>

\* One iteration of `for username in pending` (judge.py 443-485): list the
\* comments since comment_time and scan them.  record: whether the list is
\* kept in `seen`.
phase_poll_user(record) ==
  /\ phase = "poll" /\ pc = "round" /\ todo # {}
  /\ LET u == Min(todo)
         reqs == {"GET /repos/{fork_name}/issues/{pr_number}/comments"}
         NotFound(o, cl) ==
           /\ still_pending' = still_pending \cup {u}
           /\ todo' = todo \ {u}
           /\ net' = reqs /\ who' = u /\ outcome' = o /\ seen' = cl
           /\ UNCHANGED <<world, prompts, state, disk, mode, phase, pc, i,
                          pending, elapsed, arg, ret, svcvars>>
     IN \/ Raise(reqs, u)
        \/ NotFound("api_fail", << >>)
        \/ \E cl \in (IF record THEN CommentLists ELSE ListsByScan) :
             LET k == scan(cl)
                 keep == IF record THEN cl ELSE << >>
             IN IF k = 0 THEN NotFound("waiting", keep)
                ELSE IF parse_raises(cl[k].body.text) THEN Raise(reqs, u)
                ELSE /\ state' = [state EXCEPT ![u] = poll_write(@, cl[k].body)]
                     /\ todo' = todo \ {u}
                     /\ pc' = "found"
                     /\ net' = reqs /\ who' = u /\ outcome' = "ok" /\ seen' = keep
                     /\ UNCHANGED <<world, prompts, disk, mode, phase, i,
                                    pending, still_pending, elapsed, arg, ret, svcvars>>

\* judge.py 480: save_state right after a response was stored.
phase_poll_save ==
  /\ phase = "poll" /\ pc = "found"
  /\ disk' = save_state(state, disk)
  /\ pc' = "round"
  /\ Obs({}, 0, "none")
  /\ UNCHANGED <<world, prompts, state, mode, phase, i, pollvars>>

\* judge.py 487-491 and the next test of the while loop (441): the round
\* ends, the process sleeps when users are left, and the loop goes on or not.
phase_poll_round_end ==
  /\ phase = "poll" /\ pc = "round" /\ todo = {}
  /\ LET p == still_pending
         t == IF p # {} THEN sleep(elapsed) ELSE elapsed
     IN /\ pending' = p /\ todo' = p /\ still_pending' = {}
        /\ elapsed' = t
        /\ pc' = IF poll_continues(p, t) THEN "round"
                 ELSE IF p # {} THEN "timeout" ELSE "return"
  /\ Obs({}, 0, "none")
  /\ UNCHANGED <<world, prompts, state, disk, mode, phase, i>>

\* judge.py 495-500: the placeholder for one user still pending at the end.
phase_poll_timeout_user ==
  /\ phase = "poll" /\ pc = "timeout" /\ todo # {}
  /\ LET u == Min(todo)
     IN /\ state' = [state EXCEPT ![u] = timeout_write(@)]
        /\ todo' = todo \ {u}
        /\ Obs({}, u, "timed_out")
  /\ pc' = "timeout_save"
  /\ UNCHANGED <<world, prompts, disk, mode, phase, i, pending, still_pending, elapsed>>

\* judge.py 501: save_state inside the timeout loop; after the last user the
\* function returns.
phase_poll_timeout_save ==
  /\ phase = "poll" /\ pc = "timeout_save"
  /\ disk' = save_state(state, disk)
  /\ pc' = IF todo = {} THEN "return" ELSE "timeout"
  /\ Obs({}, 0, "none")
  /\ UNCHANGED <<world, prompts, state, mode, phase, i, pollvars>>

\* ---------------------------------------------------- phase 5 and the export
\* phase_report (judge.py 509-568): skipped without an API key; the request
\* and the file write sit in a try/except Exception; the state is only read.
phase_report ==
  /\ phase = "report" /\ pc = "start"
  /\ Enter(next_phase(mode, phase))
  /\ \E n \in {{}, {"POST /report.generate"}} : Obs(n, 0, "none")
  /\ UNCHANGED <<world, prompts, state, disk, mode>>

\* export_results (judge.py 574-592), then main() returns.
export_results ==
  /\ phase = "export"
  /\ Stopped
  /\ Obs({}, 0, "exported")
  /\ UNCHANGED <<world, prompts, disk>>

\* ------------------------------------------------------------ specification
Init ==
  /\ precomputed \in [Users -> [top_repos : {<< >>, <<"repo">>}]]
  /\ upstream \in [Users -> BOOLEAN]
  /\ \A u \in Users : precomputed[u].top_repos = << >> => ~upstream[u]
  /\ prompts = [u \in Users |-> 0]
  /\ notfound = {}
  /\ state = [u \in Users |-> NoEntry]
  /\ disk = [u \in Users |-> NoEntry]
  /\ mode = "idle" /\ phase = "none" /\ pc = "none" /\ i = 0
  /\ pending = {} /\ still_pending = {} /\ todo = {} /\ elapsed = 0
  /\ net = {} /\ who = 0 /\ outcome = "none" /\ seen = << >>
  /\ pulls = [u \in Users |-> {}]
  /\ arg = << >> /\ ret = << >>
  /\ NoService

\* The steps of phase_poll.
phase_poll(record) ==
  \/ phase_poll_start
  \/ phase_poll_user(record)
  \/ phase_poll_save
  \/ phase_poll_round_end
  \/ phase_poll_timeout_user
  \/ phase_poll_timeout_save

Next ==
  \/ main_start
  \/ Terminate
  \/ phase_return
  \/ loop_save
  \/ get_auth_user
  \/ phase_fork_user
  \/ phase_pr_user
  \/ phase_comment_user
  \/ phase_poll(FALSE)
  \/ phase_report
  \/ export_results

Spec == Init /\ [][Next]_vars


\* =================================================================== claims
request_fork == "POST /repos/{owner}/{repo}/forks"
phase_loops == {"fork", "pr", "comment"}

\* The four phase-progress fields of an entry.
Progress(e) == <<e.fork_name, e.pr_number, e.comment_posted, e.response_parsed>>

\* unforked 0, forked 1, pr_open 2, commented 3, responded 4.
Stage(e) ==
  IF e.response_parsed THEN 4
  ELSE IF e.comment_posted THEN 3
  ELSE IF e.pr_number # 0 THEN 2
  ELSE IF e.fork_name # "" THEN 1
  ELSE 0

\* ----------------------------------------------------------------------- C1
PhaseOrdered(e) ==
  /\ e.pr_number # 0 => e.fork_name # ""
  /\ e.comment_posted => e.pr_number # 0
  /\ (e.response_parsed \/ e.result # << >>) => e.comment_posted

\* C1: from an empty state file, after any sequence of phase runs with any
\* API outcomes, every entry (in memory and in the state file) has: a PR
\* number only with a fork name, comment_posted only with a PR number,
\* response_parsed or a result only with comment_posted.
C1_PhaseOrder ==
  \A u \in Users : PhaseOrdered(state[u]) /\ PhaseOrdered(disk[u])

\* A user has gone through all four phases and another one has not started.
C1_Witness ==
  \E u, v \in Users :
    /\ disk[u].fork_name # "" /\ disk[u].pr_number # 0
    /\ disk[u].comment_posted /\ disk[u].response_parsed /\ disk[u].result # << >>
    /\ disk[v] = NoEntry

\* ----------------------------------------------------------------------- C2
\* Every user of the state file has the flag phase p tests.
AllSet(p) ==
  \A u \in Users :
    CASE p = "fork" -> disk[u].fork_name # ""
      [] p = "pr" -> disk[u].pr_number # 0
      [] p = "comment" -> disk[u].comment_posted
      [] OTHER -> FALSE

\* C2 as stated: while phase_fork, phase_pr or phase_comment runs on a state
\* file in which every user has that phase's flag, no step issues a request
\* and neither the state nor the state file changes.
C2_NoNetworkCall ==
  [][(phase \in phase_loops /\ AllSet(phase))
       => (net' = {} /\ state' = state /\ disk' = disk)]_vars

\* C2 as amended: the same, but for the one GET /user that get_auth_user
\* issues when phase_fork starts.
C2_OnlyAuthCall ==
  [][(phase \in phase_loops /\ AllSet(phase))
       => /\ state' = state /\ disk' = disk
          /\ net' \subseteq (IF phase = "fork" /\ pc = "start"
                             THEN {"GET /user"} ELSE {})]_vars

\* phase_fork has walked every user of a state file in which all are forked.
C2_Witness ==
  /\ phase = "fork" /\ pc = "loop" /\ i > NumUsers /\ AllSet("fork")
  /\ who = NumUsers /\ outcome = "none" /\ net = {}

\* ----------------------------------------------------------------------- C3
\* C3: a fork request answered 404 marks the error on the user, and once
\* that mark is in the state file no step issues a fork request for a user
\* whose fork request was answered 404.
C3_NotFoundIsTerminal ==
  [][/\ outcome' = "not_found" => state'[who'].error # ""
     /\ \A u \in notfound :
          disk[u].error # "" => ~(who' = u /\ request_fork \in net')]_vars

\* ----------------------------------------------------------------------- C4
Forward(a, b) ==
  /\ a.fork_name # "" => b.fork_name = a.fork_name
  /\ a.pr_number # 0 => b.pr_number = a.pr_number
  /\ a.comment_posted => b.comment_posted
  /\ a.response_parsed => b.response_parsed
  /\ Stage(a) <= Stage(b)

\* C4: no step changes a set fork_name, pr_number, comment_posted or
\* response_parsed of the state file, and no step of a running phase changes
\* one in memory; the stage of a user never decreases.
C4_Monotone ==
  [][\A u \in Users :
       /\ Forward(disk[u], disk'[u])
       /\ (mode # "idle" /\ mode' # "idle") => Forward(state[u], state'[u])]_vars

\* A re-run of phase_pr has just passed a user whose PR is in the state file.
C4_Witness ==
  /\ mode = "pr" /\ phase = "pr" /\ who # 0 /\ outcome = "none"
  /\ disk[who].pr_number = MaxPR

\* ----------------------------------------------------------------------- C5
Unsaved == {u \in Users : state[u] # disk[u]}

\* C5: at every point of a run the state file differs from the state in
\* memory in at most one user's entry, and that entry is the one the last
\* step wrote, its save_state being the next statement.
C5_SavedAtOnce ==
  /\ Cardinality(Unsaved) <= 1
  /\ \A u \in Unsaved : u = who /\ pc \in {"save", "found", "timeout_save"}

\* The second of two users timing out in one batch is written and not yet
\* saved; the first one's placeholder is in the state file.
C5_Witness ==
  /\ phase = "poll" /\ pc = "timeout_save" /\ todo = {}
  /\ Cardinality(pending) >= 2
  /\ Unsaved # {}
  /\ \E u \in pending : disk[u].result = <<Placeholder>>

\* ----------------------------------------------------------------------- C6
\* C6: across terminations and re-runs the judging prompt is successfully
\* posted to a user's pull request at most once.
C6_PromptPostedOnce == \A u \in Users : prompts[u] <= 1

\* ----------------------------------------------------------------------- C9
\* C9: a step whose work for a user failed on an error status leaves the
\* error flag set in that user's entry and the user's four progress fields
\* as they were.  (A request that raises ends the process: C10.)
C9_FailureSetsError ==
  [][(who' # 0 /\ outcome' \in {"api_fail", "not_found"})
       => /\ state'[who'].error # ""
          /\ Progress(state'[who']) = Progress(state[who'])]_vars

\* ---------------------------------------------------------------------- C10
\* C10: no failure of the work for one user ends the process; the loop goes
\* on to the next user.
C10_BatchSurvives == ~(outcome = "raised" /\ who # 0 /\ mode = "idle")


\* ----------------------------------------------------------------------- C7
\* A running process takes its next step: the steps of phase_poll are
\* weakly fair.
LiveSpec == Spec /\ WF_vars(phase_poll(FALSE))

Responded(e) ==
  /\ e.response_parsed /\ e.raw_response # << >>
  /\ e.result = <<parse_coderabbit_response(e.raw_response[1].text)>>

TimedOut(e) == ~e.response_parsed /\ e.result = <<Placeholder>>

\* phase_poll has been called and has not returned.
PollRunning == phase = "poll" /\ pc # "return"

\* Where phase_poll stands says how its loop stands.
PollLoop ==
  /\ (phase = "poll" /\ pc \in {"round", "found"})
       => pending # {} /\ elapsed < POLL_TIMEOUT
  /\ (phase = "poll" /\ pc \in {"timeout", "timeout_save"})
       => pending # {} /\ elapsed >= POLL_TIMEOUT
  /\ (phase = "poll" /\ pc = "return") => (pending = {} \/ elapsed >= POLL_TIMEOUT)

\* When phase_poll returns, every commented user (those pending at the start
\* and those responded before) is responded with the parsed result, or has
\* the placeholder and response_parsed unset.
PollPost ==
  (phase = "poll" /\ pc = "return")
    => \A u \in Users :
         state[u].comment_posted => Responded(state[u]) \/ TimedOut(state[u])

\* C7: phase_poll terminates (the clock advancing by POLL_INTERVAL a round),
\* its loop runs only while users are pending and the timeout has not
\* elapsed, and at its return every user pending at the start is responded
\* with a parsed result or carries the placeholder with response_parsed unset.
C7_PollTerminates ==
  /\ PollRunning ~> ~PollRunning
  /\ [](PollLoop /\ PollPost)

\* phase_poll returns after the timeout, one user responded in this run and
\* another one timed out.
C7_Witness ==
  /\ phase = "poll" /\ pc = "return" /\ elapsed = POLL_TIMEOUT
  /\ \E u, v \in Users :
       /\ TimedOut(state[u]) /\ u \in pending
       /\ Responded(state[v])


\* ----------------------------------------------------------------------- C8
\* A user phase_comment has commented, and one phase_poll then timed out on.
Commented ==
  [NoEntry EXCEPT !.fork_name = "fork", !.repo_name = "repo",
                  !.pr_number = 1, !.default_branch = "main",
                  !.comment_posted = TRUE, !.comment_time = "now"]

CommentedTimedOut == [Commented EXCEPT !.result = <<Placeholder>>]

\* `python judge.py --phase poll` starts on a state file whose users are not
\* yet forked, or commented, or commented and timed out before.
ScanInit ==
  /\ precomputed = [u \in Users |-> [top_repos |-> <<"repo">>]]
  /\ upstream = [u \in Users |-> TRUE]
  /\ notfound = {}
  /\ disk \in [Users -> {NoEntry, Commented, CommentedTimedOut}]
  /\ state = disk
  /\ prompts = [u \in Users |-> IF disk[u].comment_posted THEN 1 ELSE 0]
  /\ mode = "poll" /\ phase = "poll" /\ pc = "start" /\ i = 1
  /\ pending = {} /\ still_pending = {} /\ todo = {} /\ elapsed = 0
  /\ net = {} /\ who = 0 /\ outcome = "none" /\ seen = << >>
  /\ pulls = [u \in Users |-> IF disk[u].pr_number # 0 THEN {disk[u].pr_number} ELSE {}]
  /\ arg = << >> /\ ret = << >>
  /\ NoService

\* The poll run, each step keeping the comment list it received in `seen`.
ScanNext ==
  \/ phase_poll(TRUE)
  \/ phase_return
  \/ export_results
  \/ Terminate

ScanSpec == ScanInit /\ [][ScanNext]_vars

\* The comment qualifies, the login taken as it is.
Qualifies(c) ==
  /\ contains_coderabbit(c.login)
  /\ ~c.body.phrase
  /\ c.body.len >= MIN_BODY_LEN

\* The comment qualifies, the login compared in lower case.
QualifiesAnyCase(c) ==
  /\ contains_coderabbit(lower(c.login))
  /\ ~c.body.phrase
  /\ c.body.len >= MIN_BODY_LEN

\* The first index of the list whose comment satisfies Q, or 0.
First(cl, Q(_)) ==
  IF \E k \in 1..Len(cl) : Q(cl[k])
  THEN Min({k \in 1..Len(cl) : Q(cl[k])})
  ELSE 0

\* After a poll step for a user: a response was stored only if the list has
\* a comment satisfying Q, and the stored raw_response is the body of the
\* first such comment.
StoresFirst(Q(_)) ==
  /\ (phase = "poll" /\ pc = "found")
       => /\ First(seen, Q) # 0
          /\ state[who].response_parsed
          /\ state[who].raw_response = <<seen[First(seen, Q)].body>>
  /\ (phase = "poll" /\ who # 0 /\ First(seen, Q) = 0)
       => ~state[who].response_parsed

\* C8 as stated: the stored raw_response is the first listed comment whose
\* login contains "coderabbit", whose body has no skip phrase and at least
\* 200 characters; a list without such a comment sets no response_parsed.
C8_FirstQualifying == StoresFirst(Qualifies)

\* C8 as amended: the same with the login compared in lower case.
C8_FirstQualifyingAnyCase == StoresFirst(QualifiesAnyCase)

\* A response is stored from the second comment of a list whose first
\* comment is the bot's but does not qualify.
C8_Witness ==
  /\ phase = "poll" /\ pc = "found" /\ Len(seen) = 2
  /\ contains_coderabbit(lower(seen[1].login)) /\ ~QualifiesAnyCase(seen[1])
  /\ state[who].raw_response = <<seen[2].body>>

\* ---------------------------------------------------------------------- C11
\* The step is a call of create_pr for user u.
calls_create_pr(u) ==
  /\ phase = "pr" /\ who' = u
  /\ "GET /repos/{fork_name}/pulls" \in net'

\* C11: when an open PR from the default branch into the baseline branch
\* exists on the fork, create_pr returns its number and issues no creation
\* request, and a fork never has more than one such open PR.
C11_CreateOrReuse ==
  [][\A u \in Users :
       /\ (calls_create_pr(u) /\ pulls[u] # {}) =>
             /\ "POST /repos/{fork_name}/pulls" \notin net'
             /\ state'[u].pr_number \in pulls[u]
       /\ Cardinality(pulls'[u]) <= 1]_vars

\* ------------------------------------------------ functions studied alone
\* The variables of the pipeline, which stands still while one function is
\* called on an input of its own.
pipevars == <<precomputed, upstream, prompts, notfound, state, disk, mode, phase, pc, i,
              pending, still_pending, todo, elapsed, net, who, outcome, seen, pulls>>

QuietPipeline ==
  /\ precomputed = [u \in Users |-> [top_repos |-> <<"repo">>]]
  /\ upstream = [u \in Users |-> TRUE]
  /\ prompts = [u \in Users |-> 0]
  /\ notfound = {}
  /\ state = [u \in Users |-> NoEntry]
  /\ disk = [u \in Users |-> NoEntry]
  /\ mode = "idle" /\ phase = "none" /\ pc = "none" /\ i = 0
  /\ pending = {} /\ still_pending = {} /\ todo = {} /\ elapsed = 0
  /\ net = {} /\ who = 0 /\ outcome = "none" /\ seen = << >>
  /\ pulls = [u \in Users |-> {}]

Quiet == QuietPipeline /\ NoService

Last(q) == q[Len(q)]

\* ------------------------------------------------------ create_base_branch
\* The commits of the default branch are numbered by age: 1 is the oldest, n
\* the newest, and the number stands for the sha.  GET .../commits lists the
\* newest first; with per_page = 1 (judge.py 208) page k holds one commit.
commits_page(n, k) == IF k \in 1..n THEN <<n + 1 - k>> ELSE << >>

\* What GitHub can answer to one call create_base_branch(fork_name,
\* default_branch):
\*   n         commits on the default branch
\*   first_ok  the first listing is answered 200
\*   last      the request for the rel="last" page: answered 200 ("ok"), not
\*             200 ("fail"), or 200 with an empty list ("empty")
\*   ref       the commit the baseline branch points at before the call (0:
\*             the branch does not exist)
\*   post      POST .../git/refs: 201 ("created", when the branch did not
\*             exist), 422 ("exists", when it did), or another error ("fail")
\*   patch     PATCH .../git/refs/heads/...: 200 ("ok") or not ("fail")
BranchInputs ==
  {a \in [n : 0..MaxCommits, first_ok : BOOLEAN, last : {"ok", "fail", "empty"},
          ref : 0..MaxCommits, post : {"created", "exists", "fail"},
          patch : {"ok", "fail"}] :
     /\ a.ref <= a.n
     /\ a.post = "created" => a.ref = 0
     /\ a.post = "exists" => a.ref # 0}

\* create_base_branch (judge.py 201-249): the sha it returns (0: None) and
\* the commit the baseline branch points at afterwards.
create_base_branch(a) ==
  LET none == [sha |-> 0, ref |-> a.ref]
      first_page == commits_page(a.n, 1)
      \* GitHub sends a rel="last" link when there is more than one page
      link_last == a.n > 1
      last_page == IF a.last = "ok" THEN commits_page(a.n, a.n) ELSE << >>
      \* judge.py 216-225
      from_last == IF link_last /\ a.last # "fail" /\ last_page # << >>
                   THEN Last(last_page) ELSE 0
      \* judge.py 227-231
      oldest_sha == IF from_last # 0 THEN from_last
                    ELSE IF first_page # << >> THEN Last(first_page) ELSE 0
  IN IF ~a.first_ok THEN none
     ELSE IF oldest_sha = 0 THEN none
     ELSE IF a.post = "created" \/ (a.post = "exists" /\ a.patch = "ok")
          THEN [sha |-> oldest_sha, ref |-> oldest_sha]
          ELSE none

BranchInit == Quiet /\ arg \in BranchInputs /\ ret = << >>

call_create_base_branch ==
  /\ ret = << >>
  /\ ret' = <<create_base_branch(arg)>>
  /\ UNCHANGED <<arg, pipevars, svcvars>>

BranchNext == call_create_base_branch

BranchSpec == BranchInit /\ [][BranchNext]_vars

\* ---------------------------------------------------------------------- C12
\* C12: whenever create_base_branch returns a sha, that sha is the oldest
\* commit of the default branch, and the baseline branch points at exactly
\* that commit, whatever the pagination requests were answered.
C12_OldestCommit ==
  (ret # << >> /\ ret[1].sha # 0) =>
     /\ ret[1].sha = 1
     /\ ret[1].ref = ret[1].sha

\* ---------------------------------------------- parse_coderabbit_response
\* The objects a fenced block can hold: each key absent, a string, or a value
\* of another type.
Objects ==
  [grade : {Absent, JStr("B+"), JStr("Z"), JNull},
   verdict : {Absent, JStr("x"), JNum("7")},
   badge : {Absent, JStr("y")}]

Pieces ==
  {Fence("invalid", NoObject), Fence("nonobject", NoObject)}
    \cup {Fence("object", o) : o \in Objects}
    \cup {Bold("grade", "C-"), Bold("grade", "E"), Bold("verdict", "bold verdict"),
          Bold("badge", "bold badge ")}
    \cup {Loose("grade", "D"), Loose("verdict", "loose verdict"),
          Loose("badge", "loose badge")}
    \cup {Sentence("roast", "roast one"), Sentence("roast", "long roast"),
          Sentence("", "I am a rabbit")}

ParseInputs == SeqsUpTo(Pieces, MaxPieces)

ParseInit == Quiet /\ arg \in ParseInputs /\ ret = << >>

\* result = parse_coderabbit_response(body) (judge.py 474): the call raises,
\* or returns a value.
call_parse_coderabbit_response ==
  /\ ret = << >>
  /\ ret' = <<[raised |-> parse_raises(arg),
               value |-> IF parse_raises(arg) THEN << >>
                         ELSE <<parse_coderabbit_response(arg)>>]>>
  /\ UNCHANGED <<arg, pipevars, svcvars>>

ParseNext == call_parse_coderabbit_response

ParseSpec == ParseInit /\ [][ParseNext]_vars

\* ---------------------------------------------------------------------- C13
\* C13: parse_coderabbit_response never raises: for every body it returns a
\* triple of strings.
C13_Total == ret # << >> => ~ret[1].raised

\* ---------------------------------------------------------------------- C14
firsts(pattern, body) ==
  {k \in 1..Len(body) :
     matches(pattern, body[k]) /\ \A j \in 1..(k-1) : ~matches(pattern, body[j])}

\* A fenced block that parses to an object with the three keys.
full_object(x) ==
  /\ x.k = "fence" /\ x.s = "object"
  /\ x.obj.grade # Absent /\ x.obj.verdict # Absent /\ x.obj.badge # Absent

\* The three values of the object, as strings.
triple(o) ==
  [quality_grade |-> str(o.grade), verdict |-> str(o.verdict),
   coderabbit_badge |-> str(o.badge)]

\* C14, as stated: whenever some fenced json block of the body parses to an
\* object with the keys grade, verdict and badge, the parser returns exactly
\* those three values as strings.
C14_AnyFence ==
  ret # << >> =>
    \A k \in 1..Len(arg) :
       full_object(arg[k]) => ~ret[1].raised /\ ret[1].value = <<triple(arg[k].obj)>>

\* C14, amended: whenever the first fenced json block of the body parses to
\* an object with the three keys, the parser returns exactly those three
\* values as strings, whatever else the body holds.
C14_FirstFence ==
  ret # << >> =>
    \A k \in firsts(json_re, arg) :
       full_object(arg[k]) => ~ret[1].raised /\ ret[1].value = <<triple(arg[k].obj)>>

\* The parser has returned the triple of the first fenced block of a body
\* that starts with a bold grade and ends with another fenced block.
C14_Witness ==
  /\ ret # << >> /\ Len(arg) = 3
  /\ is_bold_grade(arg[1]) /\ full_object(arg[2]) /\ is_fence(arg[3])
  /\ arg[3] # arg[2]
  /\ ret[1].value = <<triple(arg[2].obj)>>

\* ---------------------------------------------------------------------- C15
\* No fenced json block of the body holds valid JSON.
no_valid_fence(body) == \A k \in 1..Len(body) : is_fence(body[k]) => body[k].s = "invalid"

\* C15: when the body has no valid fenced JSON block, the first bold-labelled
\* grade is the grade; a loose grade is the grade only when there is no bold
\* one; and the verdict is that of the first-sentence fallback only when
\* neither verdict pattern matches, the bold one winning over the loose one.
C15_Layered ==
  (ret # << >> /\ no_valid_fence(arg)) =>
    /\ ~ret[1].raised
    /\ LET r == ret[1].value[1]
       IN /\ \A k \in firsts(bold_grade_re, arg) : r.quality_grade = arg[k].s
          /\ firsts(bold_grade_re, arg) = {} =>
               \A k \in firsts(loose_grade_re, arg) : r.quality_grade = arg[k].s
          /\ (firsts(bold_grade_re, arg) = {} /\ firsts(loose_grade_re, arg) = {}) =>
               r.quality_grade = "Pending"
          /\ \A k \in firsts(bold_verdict_re, arg) : r.verdict = strip(arg[k].s)
          /\ firsts(bold_verdict_re, arg) = {} =>
               \A k \in firsts(loose_verdict_re, arg) : r.verdict = strip(arg[k].s)
          /\ (firsts(bold_verdict_re, arg) = {} /\ firsts(loose_verdict_re, arg) = {}) =>
               r.verdict = extract_first_roast(arg)

\* The parser has returned the bold grade of a body whose loose grade comes
\* first and whose fenced block is invalid JSON.
C15_Witness ==
  /\ ret # << >> /\ Len(arg) = 3
  /\ arg[1] = Fence("invalid", NoObject)
  /\ is_loose_grade(arg[2]) /\ is_bold_grade(arg[3])
  /\ ret[1].value[1].quality_grade = "C-"

\* ------------------------------------------------- storing a parsed reply
\* GRADE_ORDER (export.py 29-35).
GRADE_ORDER ==
  ("A+" :> 13) @@ ("A" :> 12) @@ ("A-" :> 11) @@
  ("B+" :> 10) @@ ("B" :> 9) @@ ("B-" :> 8) @@
  ("C+" :> 7) @@ ("C" :> 6) @@ ("C-" :> 5) @@
  ("D+" :> 4) @@ ("D" :> 3) @@ ("D-" :> 2) @@
  ("F+" :> 1) @@ ("F" :> 0) @@ ("F-" :> -1)

\* phase_poll is in a round, every user commented and pending, and the first
\* qualifying comment of user 1 has the text `arg`.
StoreInit ==
  /\ precomputed = [u \in Users |-> [top_repos |-> <<"repo">>]]
  /\ upstream = [u \in Users |-> TRUE]
  /\ notfound = {}
  /\ disk = [u \in Users |-> Commented]
  /\ state = disk
  /\ prompts = [u \in Users |-> 1]
  /\ pulls = [u \in Users |-> {1}]
  /\ mode = "poll" /\ phase = "poll" /\ pc = "round" /\ i = 1
  /\ pending = Users /\ still_pending = {} /\ todo = Users /\ elapsed = 0
  /\ net = {} /\ who = 0 /\ outcome = "none" /\ seen = << >>
  /\ arg \in ParseInputs /\ ret = << >>
  /\ NoService

\* judge.py 474-479 on that comment: the parser raises and ends the run, or
\* its result is stored in the user's entry.
store_response ==
  /\ phase = "poll" /\ pc = "round" /\ todo # {} /\ ret = << >>
  /\ LET u == Min(todo)
         body == [len |-> MIN_BODY_LEN, phrase |-> FALSE, text |-> arg]
         reqs == {"GET /repos/{fork_name}/issues/{pr_number}/comments"}
     IN /\ net' = reqs /\ who' = u /\ seen' = << >>
        /\ IF parse_raises(arg)
           THEN /\ Stopped
                /\ outcome' = "raised"
                /\ ret' = <<[raised |-> TRUE, value |-> << >>]>>
           ELSE /\ state' = [state EXCEPT ![u] = poll_write(@, body)]
                /\ todo' = todo \ {u}
                /\ pc' = "found"
                /\ outcome' = "ok"
                /\ ret' = <<[raised |-> FALSE,
                             value |-> <<parse_coderabbit_response(arg)>>]>>
                /\ UNCHANGED <<mode, phase, i, pending, still_pending, elapsed>>
        /\ UNCHANGED <<world, prompts, disk, arg, svcvars>>

StoreNext ==
  \/ store_response
  \/ phase_poll_save

StoreSpec == StoreInit /\ [][StoreNext]_vars

\* ---------------------------------------------------------------------- C16
\* C16: every result in the state file has a quality_grade that is one of
\* the fifteen grades of GRADE_ORDER, "Pending" or "Error".
C16_GradeInScale ==
  \A u \in Users :
     disk[u].result # << >> =>
        disk[u].result[1].quality_grade \in (DOMAIN GRADE_ORDER) \cup {"Pending", "Error"}

\* ------------------------------------------------------------ curve_grades
\* CURVE_THRESHOLDS (export.py 44-57): (percentile cutoff, grade).
CURVE_THRESHOLDS ==
  << <<3, "F">>, <<8, "D-">>, <<15, "D">>, <<23, "D+">>, <<35, "C-">>, <<50, "C">>,
     <<65, "C+">>, <<77, "B-">>, <<88, "B">>, <<95, "B+">>, <<99, "A-">>, <<100, "A">> >>

\* The memory of the caller.  A dict from users to records is a sequence of
\* addresses of records (the users in insertion order); maps holds the dicts
\* and recs the records, both by address.  judge_results is maps[1], its
\* records are recs[1] .. recs[n].
CurveGrades == (DOMAIN GRADE_ORDER) \cup {"Pending", "Z"}

CurveInputs ==
  UNION { { [maps |-> << [u \in 1..n |-> u] >>,
             recs |-> [u \in 1..n |-> [quality_grade |-> g[u], verdict |-> "x",
                                       coderabbit_badge |-> "y"]]] :
            g \in [1..n -> CurveGrades] } : n \in 0..MaxCurved }

\* graded (export.py 68-73): the (username, numeric) pairs, in dict order.
RECURSIVE graded_from(_, _)
graded_from(h, u) ==
  IF u > Len(h.maps[1]) THEN << >>
  ELSE LET raw_grade == h.recs[h.maps[1][u]].quality_grade
           rest == graded_from(h, u + 1)
       IN IF raw_grade \in DOMAIN GRADE_ORDER
          THEN << <<u, GRADE_ORDER[raw_grade]>> >> \o rest
          ELSE rest

\* graded.sort(key=lambda x: x[1]) (export.py 79): a stable sort, each pair
\* going behind the pairs already placed that are not greater.
goes_behind_greater(x, y) == y[2] >= x[2]
goes_behind(x, y) == y[2] <= x[2]

RECURSIVE insert(_, _)
insert(x, sorted) ==
  IF sorted = << >> THEN <<x>>
  ELSE IF goes_behind(x, Last(sorted)) THEN Append(sorted, x)
  ELSE Append(insert(x, SubSeq(sorted, 1, Len(sorted) - 1)), Last(sorted))

RECURSIVE sort(_)
sort(q) ==
  IF q = << >> THEN << >>
  ELSE insert(Last(q), sort(SubSeq(q, 1, Len(q) - 1)))

\* export.py 86-93: percentile = (rank / max(n - 1, 1)) * 100, and the grade
\* of the first cutoff it does not exceed, "A+" when it exceeds them all.
\* percentile <= cutoff is decided on integers: rank * 100 <= cutoff * d.
RECURSIVE threshold_from(_, _, _)
threshold_from(rank, d, k) ==
  IF k > Len(CURVE_THRESHOLDS) THEN "A+"
  ELSE IF rank * 100 <= CURVE_THRESHOLDS[k][1] * d THEN CURVE_THRESHOLDS[k][2]
  ELSE threshold_from(rank, d, k + 1)

new_grade_over_n(rank, n) == threshold_from(rank, n, 1)
new_grade(rank, n) == threshold_from(rank, IF n - 1 > 1 THEN n - 1 ELSE 1, 1)

\* dict(curved[username]) (export.py 95): a new record with the same fields,
\* at the next free address.
dict_alias(h, a) == [h |-> h, at |-> a]
dict(h, a) == [h |-> [h EXCEPT !.recs = Append(@, h.recs[a])], at |-> Len(h.recs) + 1]

\* The loop of export.py 84-96 from position `rank` (counted from 0) of the
\* sorted pairs on; curved is maps[2].
RECURSIVE curve_from(_, _, _)
curve_from(h, graded, rank) ==
  IF rank >= Len(graded) THEN h
  ELSE LET username == graded[rank + 1][1]
           copy == dict(h, h.maps[2][username])
           h1 == [copy.h EXCEPT !.maps[2][username] = copy.at]
           h2 == [h1 EXCEPT !.recs[h1.maps[2][username]].quality_grade =
                              new_grade(rank, Len(graded))]
       IN curve_from(h2, graded, rank + 1)

\* curve_grades (export.py 60-98): the memory afterwards and the address of
\* the dict returned.
curve_grades(h) ==
  LET graded == graded_from(h, 1)
  IN IF graded = << >> THEN [h |-> h, at |-> 1]
     ELSE LET curved == [h EXCEPT !.maps = Append(@, h.maps[1])]
          IN [h |-> curve_from(curved, sort(graded), 0), at |-> 2]

CurveInit == Quiet /\ arg \in CurveInputs /\ ret = << >>

call_curve_grades ==
  /\ ret = << >>
  /\ ret' = <<curve_grades(arg)>>
  /\ UNCHANGED <<arg, pipevars, svcvars>>

CurveNext == call_curve_grades

CurveSpec == CurveInit /\ [][CurveNext]_vars

\* The grade of user u in the dict given and in the dict returned.
grade_in(u) == arg.recs[arg.maps[1][u]].quality_grade
record_out(u) == ret[1].h.recs[ret[1].h.maps[ret[1].at][u]]
grade_out(u) == record_out(u).quality_grade
is_graded(u) == grade_in(u) \in DOMAIN GRADE_ORDER

\* ---------------------------------------------------------------------- C17
\* C17: of any two graded users, the one whose original grade is better does
\* not get a worse curved grade than the other.
C17_OrderPreserved ==
  ret # << >> =>
    \A a, b \in 1..Len(arg.maps[1]) :
       (is_graded(a) /\ is_graded(b) /\ GRADE_ORDER[grade_in(a)] > GRADE_ORDER[grade_in(b)])
         => /\ grade_out(a) \in DOMAIN GRADE_ORDER
            /\ grade_out(b) \in DOMAIN GRADE_ORDER
            /\ GRADE_ORDER[grade_out(a)] >= GRADE_ORDER[grade_out(b)]

\* Three graded users, the first better than the third and the third better
\* than the second, have been curved to three different grades.
C17_Witness ==
  /\ ret # << >> /\ Len(arg.maps[1]) = 3
  /\ \A u \in 1..3 : is_graded(u)
  /\ GRADE_ORDER[grade_in(1)] > GRADE_ORDER[grade_in(3)]
  /\ GRADE_ORDER[grade_in(3)] > GRADE_ORDER[grade_in(2)]
  /\ GRADE_ORDER[grade_out(1)] > GRADE_ORDER[grade_out(3)]
  /\ GRADE_ORDER[grade_out(3)] > GRADE_ORDER[grade_out(2)]

\* ---------------------------------------------------------------------- C18
\* C18: the record returned for a user who is not graded is the record given;
\* the record returned for a graded user differs from the one given in
\* quality_grade at most; and the dict and the records given are afterwards
\* what they were before.
C18_Frame ==
  ret # << >> =>
    /\ Len(ret[1].h.maps[ret[1].at]) = Len(arg.maps[1])
    /\ \A u \in 1..Len(arg.maps[1]) :
         /\ ~is_graded(u) => record_out(u) = arg.recs[arg.maps[1][u]]
         /\ record_out(u).verdict = arg.recs[arg.maps[1][u]].verdict
         /\ record_out(u).coderabbit_badge = arg.recs[arg.maps[1][u]].coderabbit_badge
    /\ ret[1].h.maps[1] = arg.maps[1]
    /\ \A a \in 1..Len(arg.recs) : ret[1].h.recs[a] = arg.recs[a]

\* A graded user has got another grade, next to a "Pending" user and a user
\* whose grade is not in GRADE_ORDER.
C18_Witness ==
  /\ ret # << >> /\ Len(arg.maps[1]) = 3
  /\ grade_in(1) = "Pending" /\ grade_in(2) = "B+" /\ grade_in(3) = "Z"
  /\ grade_out(2) = "F"

\* ------------------------------------------------------- find_worst_commit
\* axes (toxicity.py 83).
axes ==
  <<"toxicity", "severe_toxicity", "obscene", "threat", "insult", "identity_attack">>

\* The scores of the classifier are 0 .. MaxScore, for 0.0 up to 1.0.
Scores == 0..MaxScore

\* One call find_worst_commit(texts): the number of texts (text k is texts[k-1]),
\* whether model.predict raises, and results[axis][idx] otherwise, here
\* results[idx][a] for the axis axes[a].
ToxInputs ==
  UNION { [n : {n}, failed : {FALSE}, results : [1..n -> [1..Len(axes) -> Scores]]]
            \cup (IF n = 0 THEN {}
                  ELSE [n : {n}, failed : {TRUE},
                        results : {[idx \in 1..n |-> [a \in 1..Len(axes) |-> 0]]}]) :
          n \in 0..MaxTexts }

\* `if score > worst_score` (toxicity.py 93).
beats_or_ties(score, worst_score) == score >= worst_score
beats(score, worst_score) == score > worst_score

\* The two loops of toxicity.py 90-96 from text idx, axis a on.
RECURSIVE scan_scores(_, _, _, _)
scan_scores(in, idx, a, worst) ==
  IF idx > in.n THEN worst
  ELSE IF a > Len(axes) THEN scan_scores(in, idx + 1, 1, worst)
  ELSE LET score == in.results[idx][a]
       IN scan_scores(in, idx, a + 1,
                      IF beats(score, worst.worst_score)
                      THEN [worst_score |-> score, worst_idx |-> idx, worst_axis |-> a]
                      ELSE worst)

NoWorst ==
  [found |-> FALSE, message |-> 0, toxicity_axis |-> "", toxicity_score |-> 0,
   all_scores |-> << >>]

\* find_worst_commit (toxicity.py 69-113): None, or the worst text (by its
\* position in texts, counted from 1), its axis, its score and all its scores.
find_worst_commit(in) ==
  IF in.n = 0 THEN NoWorst
  ELSE IF in.failed THEN NoWorst
  ELSE LET worst == scan_scores(in, 1, 1, [worst_score |-> 0, worst_idx |-> 0,
                                            worst_axis |-> 0])
       IN IF worst.worst_idx = 0 THEN NoWorst
          ELSE [found |-> TRUE, message |-> worst.worst_idx,
                toxicity_axis |-> axes[worst.worst_axis],
                toxicity_score |-> worst.worst_score,
                all_scores |-> in.results[worst.worst_idx]]

ToxInit == Quiet /\ arg \in ToxInputs /\ ret = << >>

call_find_worst_commit ==
  /\ ret = << >>
  /\ ret' = <<find_worst_commit(arg)>>
  /\ UNCHANGED <<arg, pipevars, svcvars>>

ToxNext == call_find_worst_commit

ToxSpec == ToxInit /\ [][ToxNext]_vars

\* The (text, axis) pairs of the call and those holding the maximum score.
pairs == (1..arg.n) \X (1..Len(axes))
is_max(p) == \A q \in pairs : arg.results[q[1]][q[2]] <= arg.results[p[1]][p[2]]
axis_no(name) == CHOOSE a \in 1..Len(axes) : axes[a] = name
reported == <<ret[1].message, axis_no(ret[1].toxicity_axis)>>

\* ---------------------------------------------------------------------- C19
\* C19: for a non-empty list of texts and a classifier that does not fail,
\* find_worst_commit returns a text, an axis and a score such that the text
\* has that score on that axis and no (text, axis) pair has a higher one; it
\* returns None only for an empty list or a failed classifier.
C19_ReturnsMaximum ==
  ret # << >> =>
    /\ (arg.n > 0 /\ ~arg.failed) =>
          /\ ret[1].found
          /\ is_max(reported)
          /\ ret[1].toxicity_score = arg.results[reported[1]][reported[2]]
    /\ ~ret[1].found => (arg.n = 0 \/ arg.failed)

\* ---------------------------------------------------------------------- C20
\* C20, as stated: of the pairs that hold the maximum score, in the same text
\* or in different texts, the one reported is on the earliest axis.
C20_EarlierAxis ==
  (ret # << >> /\ ret[1].found) =>
    \A p \in pairs : is_max(p) => reported[2] <= p[2]

\* C20, amended: the pair reported is the first that holds the maximum score
\* in the order of the scan, text by text: it is in the earliest such text,
\* and on the earliest axis on which that text holds the maximum.
C20_FirstInScanOrder ==
  (ret # << >> /\ ret[1].found) =>
    /\ is_max(reported)
    /\ \A p \in pairs :
         is_max(p) => \/ reported[1] < p[1]
                      \/ reported[1] = p[1] /\ reported[2] <= p[2]

\* Two texts tie for the maximum, the first on "insult" and the second on
\* "toxicity" and "insult", and the first text is reported with "insult".
C20_Witness ==
  /\ ret # << >> /\ ret[1].found /\ arg.n = 2
  /\ is_max(<<1, 5>>) /\ is_max(<<2, 1>>) /\ is_max(<<2, 5>>)
  /\ ~is_max(<<1, 1>>)
  /\ arg.results[1][5] = MaxScore /\ arg.results[1][1] = 1
  /\ ret[1].message = 1 /\ ret[1].toxicity_axis = "insult"

\* -------------------------------------------------------- analyze_toxicity
\* A quotient of two integers as a fraction in lowest terms, which stands for
\* the float of Python; x / 0 raises ZeroDivisionError and is not modelled
\* (no list is divided by its length unless it has a text).
RECURSIVE gcd(_, _)
gcd(a, b) == IF b = 0 THEN a ELSE gcd(b, a % b)

ratio(num, den) == [num |-> num \div gcd(num, den), den |-> den \div gcd(num, den)]

\* The lists of texts: n texts, all alike for the classifier but the one at
\* position hot (0: none).  The classifier gives every text the scores
\* `clean` and that one the scores `hot_scores`, whatever batch it comes in,
\* or raises on every call (failed).  The scores of an axis come as an array
\* that has a mean() or as a plain list that has none (arrays): the two cases
\* analyze_toxicity.py 38-49 provides for.
MeanInputs ==
  UNION { [n : {n}, hot : 0..n,
           clean : {[a \in 1..Len(axes) |-> 0], [a \in 1..Len(axes) |-> 1]},
           hot_scores : {<<2, 0, 1, 0, 2, 1>>, <<1, 1, 1, 1, 1, 1>>},
           failed : BOOLEAN, arrays : BOOLEAN] : n \in 0..MaxLen }

score_of(in, k) == IF k = in.hot THEN in.hot_scores ELSE in.clean

\* model.predict(texts[lo-1 : hi]): the scores of the texts lo .. hi.
predict(in, lo, hi) == [j \in 1..(hi - lo + 1) |-> score_of(in, lo + j - 1)]

\* The classifier raises inside the try block.
predict_never_raises(in) == FALSE
predict_raises(in) == in.failed

RECURSIVE sum_axis(_, _)
sum_axis(scores, a) ==
  IF scores = << >> THEN 0
  ELSE scores[1][a] + sum_axis(Tail(scores), a)

zero == [a \in 1..Len(axes) |-> ratio(0, 1)]

\* results[key].mean() (toxicity.py 47) raises AttributeError on a list.
mean_raises(in) == ~in.arrays

\* analyze_toxicity of toxicity.py (25-66): results[key].mean() per axis, and
\* 0.0 per axis after any exception of the try block.
analyze_toxicity(in) ==
  IF in.n = 0 THEN zero
  ELSE IF predict_raises(in) THEN zero
  ELSE IF mean_raises(in) THEN zero
  ELSE LET results == predict(in, 1, in.n)
       IN [a \in 1..Len(axes) |-> ratio(sum_axis(results, a), Len(results))]

\* texts[i : i + batch_size] (precompute.py 287): the slice ends with the list.
slice_end(at, n) == IF at + batch_size < n THEN at + batch_size ELSE n

\* The loop of precompute.py 286-291 from index `at` on: all_scores.
RECURSIVE all_scores_from(_, _)
all_scores_from(in, at) ==
  IF at >= in.n THEN << >>
  ELSE predict(in, at + 1, slice_end(at, in.n)) \o all_scores_from(in, at + batch_size)

\* max(range(len(tox)), key=lambda i: tox[i]) (precompute.py 298): the first
\* index that holds the greatest toxicity, counted from 1.
worst_index(all_scores) ==
  CHOOSE k \in 1..Len(all_scores) :
    /\ \A j \in 1..Len(all_scores) : all_scores[j][1] <= all_scores[k][1]
    /\ \A j \in 1..(k - 1) : all_scores[j][1] < all_scores[k][1]

\* analyze_toxicity of precompute.py (265-309): the six averages, the
\* toxicity of the worst commit and its message (0: "").
zero_batched == [avg |-> zero, worst_commit_toxicity |-> 0, worst_commit_msg |-> 0]

analyze_toxicity_batched(in) ==
  IF in.n = 0 THEN zero_batched
  ELSE IF predict_raises(in) THEN zero_batched
  ELSE LET all_scores == all_scores_from(in, 0)
       IN [avg |-> [a \in 1..Len(axes) |->
                      ratio(sum_axis(all_scores, a), Len(all_scores))],
           worst_commit_toxicity |-> all_scores[worst_index(all_scores)][1],
           worst_commit_msg |-> worst_index(all_scores)]

MeanInit == Quiet /\ arg \in MeanInputs /\ ret = << >>

\* analyze_toxicity of toxicity.py and of precompute.py on the same texts.
call_analyze_toxicity ==
  /\ ret = << >>
  /\ ret' = <<[avg |-> analyze_toxicity(arg),
               batched |-> analyze_toxicity_batched(arg)]>>
  /\ UNCHANGED <<arg, pipevars, svcvars>>

MeanNext == call_analyze_toxicity

MeanSpec == MeanInit /\ [][MeanNext]_vars

\* The lists of at most MaxCommits texts.
FailInputs == {in \in MeanInputs : in.n <= MaxCommits}

FailInit == Quiet /\ arg \in FailInputs /\ ret = << >>

\* scraper.py 299-302: both functions of toxicity.py on the same texts, and
\* precompute.py's analyze_toxicity next to them.
call_toxicity ==
  /\ ret = << >>
  /\ ret' = <<[avg |-> analyze_toxicity(arg),
               batched |-> analyze_toxicity_batched(arg),
               worst |-> find_worst_commit([n |-> arg.n, failed |-> arg.failed,
                                            results |-> predict(arg, 1, arg.n)])]>>
  /\ UNCHANGED <<arg, pipevars, svcvars>>

FailNext == call_toxicity

FailSpec == FailInit /\ [][FailNext]_vars

\* The sum of the scores of the n texts on axis a, counted by kind of text.
total(in, a) ==
  IF in.hot = 0 THEN in.n * in.clean[a]
  ELSE (in.n - 1) * in.clean[a] + in.hot_scores[a]

\* ---------------------------------------------------------------------- C21
\* C21: for a non-empty list and a classifier that does not fail, each of the
\* six values analyze_toxicity returns is the arithmetic mean of the scores of
\* the texts on that axis, and the batched implementation returns the same.
C21_Mean ==
  (ret # << >> /\ arg.n > 0 /\ ~arg.failed) =>
    \A a \in 1..Len(axes) :
       /\ ret[1].avg[a].num * arg.n = total(arg, a) * ret[1].avg[a].den
       /\ ret[1].batched.avg[a] = ret[1].avg[a]

\* ---------------------------------------------------------------------- C22
\* C22: on an empty list and on a failure of the classifier, analyze_toxicity
\* returns 0.0 on all six axes (in both implementations) and
\* find_worst_commit returns None.
C22_ZeroOnFailure ==
  (ret # << >> /\ (arg.n = 0 \/ arg.failed)) =>
    /\ \A a \in 1..Len(axes) :
         /\ ret[1].avg[a] = [num |-> 0, den |-> 1]
         /\ ret[1].batched.avg[a] = [num |-> 0, den |-> 1]
    /\ ~ret[1].worst.found

\* The classifier has failed on a list of texts that it would have scored
\* above zero.
C22_Witness ==
  /\ ret # << >> /\ arg.failed /\ arg.n = MaxCommits
  /\ arg.clean[1] = 1
  /\ ret[1].avg[1].num = 0 /\ ~ret[1].worst.found

\* ----------------------------------------------------------- token rotation
\* Time is counted in ticks of INITIAL_BACKOFF (half a second), so that the
\* `+ 1` second of scraper.py 49 is ONE_SECOND = 2 ticks.
\*
\* A credential is a text; what matters of it is whether it holds the text
\* "bearer " (here: in front, as in a pasted Authorization value) and the
\* rest of it.
Token == [prefixed : {FALSE}, key : {"a", "b"}] \cup [prefixed : {TRUE}, key : {"a"}]

\* GITHUB_TOKENS after split and strip (scraper.py 35): any list of
\* credentials, the empty one included (GITHUB_TOKENS=",").
Pools == SeqsUpTo(Token, NumTokens)

\* f"bearer {token}" (scraper.py 45), as the list of the occurrences of
\* "bearer " and of the other text in it.
header(token) ==
  IF token.prefixed THEN <<"bearer ", "bearer ", token.key>>
  ELSE <<"bearer ", token.key>>

\* token_header.replace("bearer ", "") (scraper.py 61): every occurrence goes.
RECURSIVE replace_bearer(_)
replace_bearer(h) ==
  IF h = << >> THEN << >>
  ELSE IF h[1] = "bearer " THEN replace_bearer(Tail(h))
  ELSE <<h[1]>> \o replace_bearer(Tail(h))

\* The credential whose text is the given list of pieces.
text_token(h) ==
  [prefixed |-> Len(h) > 1, key |-> h[Len(h)]]

\* token_cooldowns.get(token, 0).
cooldown(tc, token) ==
  IF \E e \in tc : e.token = token
  THEN (CHOOSE e \in tc : e.token = token).until
  ELSE 0

\* token_cooldowns[raw] = until.
set_cooldown(tc, raw, until) ==
  {e \in tc : e.token # raw} \cup {[token |-> raw, until |-> until]}

\* record_rate_limit (scraper.py 55-63): rate is << >> when the response does
\* not report an exhausted quota (a header missing, or remaining > 0), and
\* <<reset_at>> when X-RateLimit-Remaining is 0.
record_rate_limit(tc, token_header, rate) ==
  IF rate = << >> THEN tc
  ELSE set_cooldown(tc, text_token(replace_bearer(token_header)), rate[1])

\* The position in tokens of the k-th next(token_cycle) from now on.
cycle_pos_from_first(k) == ((k - 1) % Len(tokens)) + 1
cycle_pos(k) == ((token_cycle - 1 + k - 1) % Len(tokens)) + 1

\* The test of scraper.py 44.
available(token, now) == cooldown(token_cooldowns, token) <= now

\* The loop of scraper.py 42-45: how many credentials it draws before one is
\* available (0: none is).
drawn(now) ==
  IF \E k \in 1..Len(tokens) : available(tokens[cycle_pos(k)], now)
  THEN Min({k \in 1..Len(tokens) : available(tokens[cycle_pos(k)], now)})
  ELSE 0

\* wait (scraper.py 48-49); min() of no value raises ValueError.
earliest == Min({e.until : e \in token_cooldowns})
wait_exact(now) == IF earliest - now > 0 THEN earliest - now ELSE 0
wait(now) == IF earliest - now + ONE_SECOND > 0 THEN earliest - now + ONE_SECOND ELSE 0

Finish(result) == [gq EXCEPT !.pc = result.pc, !.error = result.error,
                             !.payload = result.payload]

\* A call of graphql begins (scraper.py 174-175); none begins after MaxTime.
graphql_call ==
  /\ gq.pc \in {"idle", "returned", "raised"}
  /\ clock <= MaxTime
  /\ gq' = [NoCall EXCEPT !.pc = "headers"]
  /\ UNCHANGED <<tokens, token_cycle, token_cooldowns, clock, limits>>
  /\ UNCHANGED <<arg, ret, pipevars, cachevars>>

\* get_next_headers up to its return or its sleep (scraper.py 40-51).  With
\* every credential cooling and nothing to wait for, the sleep is empty and
\* the call at 52 finds what this one found: the recursion has no end
\* (RecursionError).
get_next_headers ==
  /\ gq.pc = "headers"
  /\ LET now == clock
         k == drawn(now)
     IN IF k # 0
        THEN /\ gq' = [gq EXCEPT !.pc = "post", !.token = <<tokens[cycle_pos(k)]>>]
             /\ token_cycle' = (cycle_pos(k) % Len(tokens)) + 1
        ELSE /\ UNCHANGED token_cycle
             /\ IF token_cooldowns = {}
                THEN gq' = Finish([pc |-> "raised", error |-> "ValueError", payload |-> ""])
                ELSE IF wait(now) = 0
                THEN gq' = Finish([pc |-> "raised", error |-> "RecursionError",
                                   payload |-> ""])
                ELSE gq' = [gq EXCEPT !.pc = "sleep", !.wait = wait(now)]
  /\ UNCHANGED <<tokens, token_cooldowns, clock, limits>>
  /\ UNCHANGED <<arg, ret, pipevars, cachevars>>

\* time.sleep(wait) returns and get_next_headers calls itself
\* (scraper.py 51-52).
sleep_done ==
  /\ gq.pc = "sleep"
  /\ clock' = clock + gq.wait
  /\ gq' = [gq EXCEPT !.pc = "headers", !.wait = 0]
  /\ UNCHANGED <<tokens, token_cycle, token_cooldowns, limits>>
  /\ UNCHANGED <<arg, ret, pipevars, cachevars>>

\* What GitHub answers: a status, for 200 whether the payload holds "errors"
\* ("": no; "resolve": Could not resolve to a User; "other"), and the rate
\* limit it reports.
Responses(now) ==
  [status : {200}, errors : {"", "resolve", "other"},
   rate : {<< >>} \cup {<<r>> : r \in (now + 1)..(now + MaxCool)}]
  \cup
  [status : {401, 429, 502, 503}, errors : {""},
   rate : {<< >>} \cup {<<r>> : r \in (now + 1)..(now + MaxCool)}]

\* resp.raise_for_status().
raise_for_status_never(status) == FALSE
raise_for_status(status) == status >= 400 /\ status < 600

\* scraper.py 186.
transient(status) == status \in {502, 503, 429}

RECURSIVE pow2(_)
pow2(n) == IF n = 0 THEN 1 ELSE 2 * pow2(n - 1)

\* scraper.py 187.
backoff(attempt) == INITIAL_BACKOFF * pow2(attempt)

\* One request of graphql and what follows it up to the sleep, the return or
\* the raise (scraper.py 177-196).  The request may fail without an answer,
\* and requests.post then raises.
post ==
  /\ gq.pc = "post"
  /\ \/ /\ gq' = [Finish([pc |-> "raised", error |-> "ConnectionError", payload |-> ""])
                    EXCEPT !.requests = @ + 1, !.status = 0, !.errors = ""]
        /\ UNCHANGED <<token_cooldowns, limits>>
     \/ \E resp \in Responses(clock) :
          /\ token_cooldowns' =
                record_rate_limit(token_cooldowns, header(gq.token[1]), resp.rate)
          /\ limits' = IF resp.rate = << >> THEN limits
                       ELSE set_cooldown(limits, gq.token[1], resp.rate[1])
          /\ LET seen_resp == [gq EXCEPT !.requests = @ + 1,
                                         !.status = resp.status,
                                         !.errors = resp.errors]
             IN IF transient(resp.status)
                THEN gq' = [seen_resp EXCEPT !.pc = "backoff",
                                             !.wait = backoff(gq.attempt)]
                ELSE IF raise_for_status(resp.status)
                THEN gq' = [seen_resp EXCEPT !.pc = "raised", !.error = "HTTPError"]
                ELSE IF resp.errors # ""
                THEN gq' = [seen_resp EXCEPT !.pc = "raised", !.error = "RuntimeError"]
                ELSE gq' = [seen_resp EXCEPT !.pc = "returned", !.payload = "data"]
  /\ UNCHANGED <<tokens, token_cycle, clock>>
  /\ UNCHANGED <<arg, ret, pipevars, cachevars>>

\* time.sleep(wait) returns and the loop goes on (scraper.py 188-189), or has
\* ended (198-199).
backoff_done ==
  /\ gq.pc = "backoff"
  /\ clock' = clock + gq.wait
  /\ IF gq.attempt + 1 < MAX_RETRIES
     THEN gq' = [gq EXCEPT !.pc = "headers", !.attempt = @ + 1, !.wait = 0]
     ELSE IF raise_for_status(gq.status)
     THEN gq' = [gq EXCEPT !.pc = "raised", !.error = "HTTPError", !.wait = 0]
     ELSE gq' = [gq EXCEPT !.pc = "returned", !.payload = "empty", !.wait = 0]
  /\ UNCHANGED <<tokens, token_cycle, token_cooldowns, limits>>
  /\ UNCHANGED <<arg, ret, pipevars, cachevars>>

TokenInit ==
  /\ QuietPipeline /\ arg = << >> /\ ret = << >>
  /\ tokens \in Pools /\ token_cycle = 1 /\ token_cooldowns = {}
  /\ clock = 0 /\ gq = NoCall /\ limits = {}
  /\ NoCache

TokenNext ==
  \/ graphql_call
  \/ get_next_headers
  \/ sleep_done
  \/ post
  \/ backoff_done

TokenSpec == TokenInit /\ [][TokenNext]_vars

\* ---------------------------------------------------------------------- C23
\* C23: a credential that reported no quota left with the reset time R is
\* recorded as cooling until R; get_next_headers never returns a credential
\* whose recorded cooldown is later than the current time; and no request is
\* made with a credential before the reset time it reported.
C23_Cooling ==
  /\ \A e \in limits : cooldown(token_cooldowns, e.token) = e.until
  /\ gq.pc = "post" =>
       /\ cooldown(token_cooldowns, gq.token[1]) <= clock
       /\ cooldown(limits, gq.token[1]) <= clock

\* The same for the credentials that do not hold the text "bearer ".
C23_Plain ==
  (\A k \in 1..Len(tokens) : ~tokens[k].prefixed) => C23_Cooling

\* A request is about to be made with a credential that once reported no
\* quota left, its reset time having come.
C23_PlainWitness ==
  /\ \A k \in 1..Len(tokens) : ~tokens[k].prefixed
  /\ gq.pc = "post"
  /\ cooldown(limits, gq.token[1]) # 0
  /\ cooldown(limits, gq.token[1]) = clock

\* ---------------------------------------------------------------------- C24
\* get_next_headers runs to its end and its sleep comes to an end: the
\* process is not stopped in the middle of a call.
TokenLive == TokenSpec /\ WF_vars(get_next_headers) /\ WF_vars(sleep_done)

\* Every credential of the pool is cooling down.
all_cooling == \A k \in 1..Len(tokens) : ~available(tokens[k], clock)

\* C24: with a non-empty pool get_next_headers never raises; it sleeps only
\* when every credential is cooling down, and then until one second after the
\* earliest reset; the credential it returns is not cooling down; and it
\* always returns in the end.
C24_Returns ==
  /\ [](tokens # << >> =>
          /\ gq.error \notin {"ValueError", "RecursionError"}
          /\ gq.pc = "sleep" => all_cooling /\ clock + gq.wait = earliest + ONE_SECOND
          /\ gq.pc = "post" => available(gq.token[1], clock))
  /\ ((tokens # << >> /\ gq.pc = "headers") ~> gq.pc = "post")

\* get_next_headers has slept with two credentials cooling down until
\* different times, and has returned the one that reset first.
C24_Witness ==
  /\ Len(tokens) = 2 /\ gq.pc = "post"
  /\ \A e \in token_cooldowns : e.until <= clock
  /\ \E e \in token_cooldowns :
       /\ e.token = gq.token[1] /\ clock = e.until + ONE_SECOND
       /\ \E f \in token_cooldowns : f.until > e.until

\* ---------------------------------------------------------------------- C25
\* C25: a call of graphql makes at most MAX_RETRIES requests; it makes another
\* one only after a 502, 503 or 429 and a sleep that doubles with each
\* attempt; it returns only the payload of a 200 response without "errors";
\* it raises on a payload with "errors" at once; and after MAX_RETRIES
\* transient responses it raises and returns nothing.
C25_Retries ==
  /\ gq.requests <= MAX_RETRIES
  /\ gq.pc = "backoff" =>
       /\ transient(gq.status)
       /\ gq.wait = INITIAL_BACKOFF * pow2(gq.requests - 1)
  /\ (gq.pc \in {"headers", "sleep", "post"} /\ gq.requests > 0) =>
       transient(gq.status) /\ gq.attempt = gq.requests
  /\ gq.pc = "returned" =>
       gq.status = 200 /\ gq.errors = "" /\ gq.payload = "data"
  /\ (gq.requests > 0 /\ gq.status = 200 /\ gq.errors # "") =>
       gq.pc = "raised" /\ gq.error = "RuntimeError"
  /\ (gq.requests = MAX_RETRIES /\ transient(gq.status)) =>
       \/ gq.pc = "backoff"
       \/ gq.pc = "raised" /\ gq.error = "HTTPError"

\* The fifth request of a call was answered 503 like the four before it, and
\* the call has raised.
C25_Witness ==
  /\ gq.pc = "raised" /\ gq.error = "HTTPError"
  /\ gq.requests = MAX_RETRIES /\ gq.status = 503
  /\ clock >= 31 * INITIAL_BACKOFF

\* -------------------------------------------------------------- scrape_user
\* How a call of graphql ends, as scrape_user sees it: the payload ("data";
\* `user` tells whether data.user is an object or null, `nodes` lists what the
\* loops of scrape_user go through), or the exception raised (RuntimeError
\* for a payload with "errors", `resolve` telling whether its text holds
\* "Could not resolve to a User"; HTTPError, ConnectionError or ValueError
\* as in TokenSpec).
Payload(user, nodes) == [kind |-> "data", resolve |-> FALSE, user |-> user, nodes |-> nodes]
Raised(kind, resolve) == [kind |-> kind, resolve |-> resolve, user |-> FALSE, nodes |-> << >>]

Failures ==
  {Raised("RuntimeError", TRUE), Raised("RuntimeError", FALSE),
   Raised("HTTPError", FALSE), Raised("ConnectionError", FALSE)}

\* The profile query: the user's repositories with their stars.
ProfileOutcomes ==
  Failures \cup {Raised("ValueError", FALSE)} \cup
  {Payload(FALSE, << >>),
   Payload(TRUE, <<[name |-> "r1", stargazerCount |-> 2],
                   [name |-> "r2", stargazerCount |-> 1]>>)}

\* The commit-history query: the commits of the repositories in the order the
\* loops meet them: one authored by the user ("mine"), one by somebody else
\* ("other"), or a node on which the loop body raises ("broken": a null where
\* an object is expected).  emojis is what count_emojis finds in the message.
CommitNodes ==
  {[k |-> "mine", emojis |-> 1], [k |-> "other", emojis |-> 1], [k |-> "broken", emojis |-> 0]}

CommitOutcomes ==
  Failures \cup {Payload(FALSE, << >>)} \cup
  {Payload(TRUE, nodes) : nodes \in SeqsUpTo(CommitNodes, MaxTexts)}

\* The README query: per repository a blob with a text ("text"), no object
\* ("none"), or a node on which the loop body raises ("broken").
ReadmeNodes ==
  {[k |-> "text", emojis |-> 2], [k |-> "none", emojis |-> 0], [k |-> "broken", emojis |-> 0]}

ReadmeOutcomes ==
  Failures \cup {Payload(FALSE, << >>)} \cup
  {Payload(TRUE, nodes) : nodes \in SeqsUpTo(ReadmeNodes, MaxTexts)}

\* One call scrape_user(username) of scraper.py or of precompute.py, with
\* what the three queries and the classifier do.
ScrapeInputs ==
  [impl : {"scraper", "precompute"}, profile : ProfileOutcomes,
   commits : CommitOutcomes, readmes : ReadmeOutcomes,
   failed : BOOLEAN, arrays : BOOLEAN]

\* `"Could not resolve to a User" in str(e)` under `except RuntimeError`
\* (scraper.py 239-241).
not_found_any_runtime_error(e) == e.kind = "RuntimeError"
not_found(e) == e.kind = "RuntimeError" /\ e.resolve

\* `except Exception` (scraper.py 276, 292): the exceptions it catches.
is_exception_runtime_only(exc) == exc = "RuntimeError"
is_exception(exc) ==
  exc \in {"RuntimeError", "HTTPError", "ConnectionError", "ValueError",
           "TypeError", "AttributeError"}

\* The exception raised inside a try block of scrape_user ("": none): that
\* of graphql, TypeError for the subscript of a null user, AttributeError for
\* a node that is null.
raised_in(answer) ==
  IF answer.kind # "data" THEN answer.kind
  ELSE IF ~answer.user THEN "TypeError"
  ELSE IF \E k \in 1..Len(answer.nodes) : answer.nodes[k].k = "broken"
  THEN "AttributeError"
  ELSE ""

\* The loops of scraper.py 263-275 over the commits from node k on: the
\* messages appended until the end or until the body raises.
RECURSIVE collect_commits(_, _)
collect_commits(nodes, k) ==
  IF k > Len(nodes) THEN << >>
  ELSE IF nodes[k].k = "broken" THEN << >>
  ELSE IF nodes[k].k = "mine" THEN <<nodes[k]>> \o collect_commits(nodes, k + 1)
  ELSE collect_commits(nodes, k + 1)

\* The loop of scraper.py 285-291.
RECURSIVE collect_readmes(_, _)
collect_readmes(nodes, k) ==
  IF k > Len(nodes) THEN << >>
  ELSE IF nodes[k].k = "broken" THEN << >>
  ELSE IF nodes[k].k = "text" THEN <<nodes[k]>> \o collect_readmes(nodes, k + 1)
  ELSE collect_readmes(nodes, k + 1)

\* What a try block of scrape_user leaves in its list: nothing when graphql
\* raises or data.user is null (the subscript raises on None).
commit_messages_of(in) ==
  IF in.commits.kind # "data" \/ ~in.commits.user THEN << >>
  ELSE collect_commits(in.commits.nodes, 1)

readme_texts_of(in) ==
  IF in.readmes.kind # "data" \/ ~in.readmes.user THEN << >>
  ELSE collect_readmes(in.readmes.nodes, 1)

\* count_emojis (scraper.py 159-164).
RECURSIVE count_emojis(_)
count_emojis(texts) ==
  IF texts = << >> THEN 0 ELSE texts[1].emojis + count_emojis(Tail(texts))

RECURSIVE sum_stars(_)
sum_stars(nodes) ==
  IF nodes = << >> THEN 0 ELSE nodes[1].stargazerCount + sum_stars(Tail(nodes))

\* The texts given to the classifier, which scores each of them 1 on every
\* axis, unless it fails.
classified(in, texts) ==
  [n |-> Len(texts), hot |-> 0, clean |-> [a \in 1..Len(axes) |-> 1],
   hot_scores |-> [a \in 1..Len(axes) |-> 1], failed |-> in.failed, arrays |-> in.arrays]

\* save_raw_data (scraper.py 205-229): the files written.
save_raw_data(commit_messages, readme_dict, worst_commit) ==
  [commits |-> commit_messages, readmes |-> readme_dict,
   worst_commit |-> IF worst_commit.found THEN <<worst_commit>> ELSE << >>]

NoRecord == [kind |-> "None", error |-> "", queries |-> 1, raw |-> << >>, record |-> << >>]

\* scrape_user (scraper.py 235-324, precompute.py 347-438): None, the
\* exception of the profile query, or the record; with the number of queries
\* made and the raw data written.
scrape_user(in) ==
  IF in.profile.kind # "data"
  THEN IF not_found(in.profile) THEN NoRecord
       ELSE [NoRecord EXCEPT !.kind = "raised", !.error = in.profile.kind]
  ELSE IF ~in.profile.user THEN NoRecord
  ELSE IF raised_in(in.commits) # "" /\ ~is_exception(raised_in(in.commits))
  THEN [NoRecord EXCEPT !.kind = "raised", !.error = raised_in(in.commits),
                        !.queries = 2]
  ELSE IF raised_in(in.readmes) # "" /\ ~is_exception(raised_in(in.readmes))
  THEN [NoRecord EXCEPT !.kind = "raised", !.error = raised_in(in.readmes),
                        !.queries = 3]
  ELSE LET commit_messages == commit_messages_of(in)
           readme_texts == readme_texts_of(in)
           texts == classified(in, commit_messages)
           worst_commit ==
             find_worst_commit([n |-> texts.n, failed |-> texts.failed,
                                results |-> predict(texts, 1, texts.n)])
           toxicity_scores ==
             IF in.impl = "scraper"
             THEN [avg |-> analyze_toxicity(texts), worst_commit_toxicity |-> 0,
                   worst_commit_msg |-> 0]
             ELSE analyze_toxicity_batched(texts)
       IN [kind |-> "record", error |-> "", queries |-> 3,
           raw |-> <<save_raw_data(commit_messages, readme_texts, worst_commit)>>,
           record |-> <<[stars |-> sum_stars(in.profile.nodes),
                         top_repos |-> [k \in 1..Len(in.profile.nodes) |->
                                          in.profile.nodes[k].name],
                         emoji_score |-> count_emojis(commit_messages \o readme_texts),
                         toxicity |-> toxicity_scores]>>]

ScrapeInit == Quiet /\ arg \in ScrapeInputs /\ ret = << >>

call_scrape_user ==
  /\ ret = << >>
  /\ ret' = <<scrape_user(arg)>>
  /\ UNCHANGED <<arg, pipevars, svcvars>>

ScrapeNext == call_scrape_user

ScrapeSpec == ScrapeInit /\ [][ScrapeNext]_vars

\* The nodes of kind k among the first n of a list.
of_kind(nodes, k, n) == {j \in 1..n : nodes[j].k = k}

\* The first node on which the loop body raises (Len + 1: none).
first_broken(nodes) ==
  Min({j \in 1..Len(nodes) : nodes[j].k = "broken"} \cup {Len(nodes) + 1})

\* ---------------------------------------------------------------------- C26
\* C26: when the profile query returns a user, scrape_user returns a record,
\* whatever the commit-history and README queries do; a query that fails
\* contributes nothing, one that succeeds contributes what its loop collected;
\* emoji_score counts the emojis of the commit messages and READMEs collected
\* and the toxicity is that of the commit messages collected.
C26_Degrades ==
  (ret # << >> /\ arg.profile.kind = "data" /\ arg.profile.user) =>
    /\ ret[1].kind = "record" /\ ret[1].queries = 3
    /\ Len(ret[1].record) = 1 /\ Len(ret[1].raw) = 1
    /\ LET raw == ret[1].raw[1]
           record == ret[1].record[1]
           mine == of_kind(arg.commits.nodes, "mine", first_broken(arg.commits.nodes) - 1)
           text == of_kind(arg.readmes.nodes, "text", first_broken(arg.readmes.nodes) - 1)
       IN /\ arg.commits.kind # "data" => raw.commits = << >>
          /\ arg.readmes.kind # "data" => raw.readmes = << >>
          /\ Len(raw.commits) = Cardinality(mine)
          /\ Len(raw.readmes) = Cardinality(text)
          /\ record.emoji_score = Cardinality(mine) + 2 * Cardinality(text)
          /\ record.toxicity.avg =
               (IF arg.impl = "scraper"
                THEN analyze_toxicity(classified(arg, raw.commits))
                ELSE analyze_toxicity_batched(classified(arg, raw.commits)).avg)
          /\ record.stars = 3

\* The commit-history query has failed with an HTTP error, the README query
\* has returned a README, and the record counts its emojis.
C26_Witness ==
  /\ ret # << >> /\ arg.profile.kind = "data" /\ arg.profile.user
  /\ arg.commits.kind = "HTTPError"
  /\ arg.readmes.kind = "data" /\ arg.readmes.user /\ Len(arg.readmes.nodes) = 1
  /\ ret[1].kind = "record"
  /\ ret[1].record[1].emoji_score = 2
  /\ ret[1].raw[1].commits = << >>

\* ---------------------------------------------------------------------- C27
\* C27: scrape_user returns None, having made the profile query only and
\* written no raw data, exactly when that query raises a RuntimeError that
\* holds "Could not resolve to a User" or returns a null user; any other
\* exception of the profile query is raised to the caller.
C27_NotFound ==
  ret # << >> =>
    /\ ret[1].kind = "None" <=>
         \/ arg.profile.kind = "RuntimeError" /\ arg.profile.resolve
         \/ arg.profile.kind = "data" /\ ~arg.profile.user
    /\ ret[1].kind = "None" => ret[1].queries = 1 /\ ret[1].raw = << >>
    /\ (arg.profile.kind # "data" /\ ~(arg.profile.kind = "RuntimeError" /\ arg.profile.resolve)) =>
         ret[1].kind = "raised" /\ ret[1].error = arg.profile.kind

\* The profile query has raised a RuntimeError of another kind and the caller
\* has got it.
C27_Witness ==
  /\ ret # << >>
  /\ arg.profile.kind = "RuntimeError" /\ ~arg.profile.resolve
  /\ arg.commits.kind = "data"
  /\ ret[1].kind = "raised" /\ ret[1].error = "RuntimeError" /\ ret[1].queries = 1

\* ------------------------------------------------------- the profile caches
\* A username is a text, here a list of characters: a small and a capital
\* letter and a blank.
Chars == {"a", "A", " "}
Names == SeqsUpTo(Chars, MaxName) \ {<< >>}

\* str.lower().
lowercase_identity(name) == name
lowercase(name) == [k \in 1..Len(name) |-> IF name[k] = "A" THEN "a" ELSE name[k]]

\* str.strip().
RECURSIVE lstrip(_)
lstrip(name) ==
  IF name # << >> /\ name[1] = " " THEN lstrip(Tail(name)) ELSE name

RECURSIVE rstrip(_)
rstrip(name) ==
  IF name # << >> /\ name[Len(name)] = " "
  THEN rstrip(SubSeq(name, 1, Len(name) - 1))
  ELSE name

stripped(name) == rstrip(lstrip(name))

\* A dict: `key in d`, d.get(key) as a list of no or one value, d[key] = data,
\* del d[key].
has(d, key) == \E e \in d : e.key = key
get_all(d, key) == IF has(d, key) THEN <<(CHOOSE e \in d : e.key = key).data>> ELSE << >>
put(d, key, data) == {e \in d : e.key # key} \cup {[key |-> key, data |-> data]}
del(d, key) == {e \in d : e.key # key}
keys(d) == {e.key : e \in d}

\* The records: the one a file found at start holds and the one a scrape
\* returns now, with the "toxicity" that analyze_user_toxicity sets.
OldRecord == [scraped |-> "before", toxicity |-> << >>]
NewRecord == [scraped |-> "now", toxicity |-> << >>]

\* get_user_data and save_user_data (api.py 68-78).
get_user_data(d, username) == get_all(d, lowercase(username))
save_user_data(d, username, data) == put(d, lowercase(username), data)

\* GitHub has one user, whose login is "a" in any case.  What
\* scraper.scrape_user does for a username: returns a record, returns None,
\* or raises when GitHub cannot be reached (down).
github(username) == IF lowercase(username) = <<"a">> THEN "record" ELSE "None"
scraper_result(username, down) == IF down THEN "raised" ELSE github(username)

\* The module api binds the name scrape_user twice: to scraper.scrape_user
\* (api.py 18) and to the handler of POST /scrape (131).  A call by that name
\* finds the binding made last.
bindings == <<"scraper.scrape_user", "api.scrape_user">>

global_scrape_user == bindings[Len(bindings)]

\* scrape_user(username) in api.py (146, 270): the handler takes two
\* arguments and the call raises TypeError; the scraper would do `result`.
call_scrape_user_by_name(result) ==
  IF global_scrape_user = "api.scrape_user" THEN "TypeError" ELSE result

Answer(op, username, code, status, data) ==
  [op |-> op, username |-> username, status |-> status, code |-> code, data |-> data,
   results |-> << >>, stored |-> {}]

\* POST /scrape (api.py 130-176).
post_scrape ==
  \E u \in Names, down \in BOOLEAN, analyze \in BOOLEAN :
    LET username == stripped(u)
        result == scraper_result(username, down)
        called == call_scrape_user_by_name(result)
        asked == [Answer("scrape", u, 200, "error", << >>) EXCEPT
                    !.results = <<[username |-> username, scraper |-> result,
                                   status |-> "error"]>>]
    IN /\ IF username = << >>
          THEN /\ reply' = Answer("scrape", u, 400, "", << >>)
               /\ UNCHANGED db
          ELSE IF called \in {"TypeError", "raised", "None"}
          THEN /\ reply' = asked
               /\ UNCHANGED db
          ELSE /\ db' = save_user_data(db, username, NewRecord)
               /\ reply' = [asked EXCEPT
                              !.status = IF analyze THEN "success_with_toxicity_pending"
                                         ELSE "success",
                              !.data = <<NewRecord>>,
                              !.results = <<[username |-> username, scraper |-> result,
                                             status |-> "success"]>>,
                              !.stored = {lowercase(username)}]
       /\ UNCHANGED <<existing, run, tokenvars, arg, ret, pipevars>>

\* The loop of POST /scrape-batch (api.py 268-291) over the usernames from
\* the k-th on: the dict, the results and the keys stored.
RECURSIVE batch_from(_, _, _, _)
batch_from(d, usernames, down, k) ==
  IF k > Len(usernames) THEN [db |-> d, results |-> << >>, stored |-> {}]
  ELSE LET called == call_scrape_user_by_name(scraper_result(usernames[k], down))
           saves == called = "record"
           rest == batch_from(IF saves THEN save_user_data(d, usernames[k], NewRecord)
                              ELSE d,
                              usernames, down, k + 1)
           status == IF saves THEN "success"
                     ELSE IF called = "None" THEN "not_found" ELSE "error"
       IN [db |-> rest.db,
           results |-> <<[username |-> usernames[k],
                          scraper |-> scraper_result(usernames[k], down),
                          status |-> status]>> \o rest.results,
           stored |-> rest.stored \cup
                      (IF saves THEN {lowercase(usernames[k])} ELSE {})]

\* POST /scrape-batch (api.py 258-296).
post_scrape_batch ==
  \E usernames \in SeqsUpTo(Names, MaxBatch), down \in BOOLEAN :
    LET done == batch_from(db, usernames, down, 1)
    IN /\ db' = done.db
       /\ reply' = [Answer("batch", << >>, 200, "", << >>) EXCEPT
                      !.results = done.results, !.stored = done.stored]
       /\ UNCHANGED <<existing, run, tokenvars, arg, ret, pipevars>>

\* GET /user/{username} (api.py 179-195).
get_user ==
  \E u \in Names :
    LET username == stripped(u)
        data == get_user_data(db, username)
    IN /\ IF data = << >>
          THEN reply' = Answer("get", u, 404, "", << >>)
          ELSE reply' = Answer("get", u, 200, "cached", data)
       /\ UNCHANGED <<db, existing, run, tokenvars, arg, ret, pipevars>>

\* DELETE /user/{username} (api.py 239-251).
delete_user ==
  \E u \in Names :
    LET username == stripped(u)
    IN /\ IF ~has(db, lowercase(username))
          THEN /\ reply' = Answer("delete", u, 404, "", << >>)
               /\ UNCHANGED db
          ELSE /\ db' = del(db, lowercase(username))
               /\ reply' = Answer("delete", u, 200, "deleted", << >>)
       /\ UNCHANGED <<existing, run, tokenvars, arg, ret, pipevars>>

\* POST /toxicity/{username} (api.py 198-220) with analyze_user_toxicity
\* (85-109): raw_data/{username}/commits.json holds commits or does not.
run_toxicity ==
  \E u \in Names, commits \in BOOLEAN :
    LET username == stripped(u)
        data == get_user_data(db, username)
    IN /\ IF data = << >>
          THEN /\ reply' = Answer("toxicity", u, 404, "", << >>)
               /\ UNCHANGED db
          ELSE /\ reply' = Answer("toxicity", u, 200, "success", << >>)
               /\ IF commits /\ has(db, lowercase(username))
                  THEN db' = put(db, lowercase(username),
                                 [data[1] EXCEPT !.toxicity = <<"scores">>])
                  ELSE UNCHANGED db
       /\ UNCHANGED <<existing, run, tokenvars, arg, ret, pipevars>>

\* load_usernames (precompute.py 444-458) on the lines from the k-th on,
\* `seen` holding the lowercased names met; no line of the model begins
\* with "#".
RECURSIVE load_usernames(_, _, _)
load_usernames(lines, k, met) ==
  IF k > Len(lines) THEN << >>
  ELSE LET line == stripped(lines[k])
       IN IF line = << >> \/ lowercase(line) \in met
          THEN load_usernames(lines, k + 1, met)
          ELSE <<line>> \o load_usernames(lines, k + 1, met \cup {lowercase(line)})

\* existing[username] = result (precompute.py 525).
store_lowercased(d, username, result) == put(d, lowercase(username), result)
store(d, username, result) == put(d, username, result)

\* The loop of precompute.main (510-526) over the usernames from the k-th on;
\* existing_lower is computed once, before the loop (508).
RECURSIVE main_from(_, _, _, _, _)
main_from(d, existing_lower, usernames, down, k) ==
  IF k > Len(usernames) THEN d
  ELSE IF lowercase(usernames[k]) \in existing_lower
  THEN main_from(d, existing_lower, usernames, down, k + 1)
  ELSE IF scraper_result(usernames[k], down) # "record"
  THEN main_from(d, existing_lower, usernames, down, k + 1)
  ELSE main_from(store(d, usernames[k], NewRecord), existing_lower, usernames,
                 down, k + 1)

\* precompute.main (498-529) on a usernames.txt of up to MaxBatch lines.
precompute_main ==
  \E lines \in SeqsUpTo(Names, MaxBatch), down \in BOOLEAN :
    LET usernames == load_usernames(lines, 1, {})
        existing_lower == {lowercase(key) : key \in keys(existing)}
        saved == main_from(existing, existing_lower, usernames, down, 1)
        progress == [k \in 1..Len(usernames) |->
                       [username |-> usernames[k],
                        scraper |-> scraper_result(usernames[k], down),
                        status |-> IF lowercase(usernames[k]) \in existing_lower
                                   THEN "skipped"
                                   ELSE IF scraper_result(usernames[k], down) = "record"
                                   THEN "stored" ELSE "failed"]]
    IN /\ existing' = saved
       /\ reply' = [Answer("main", << >>, 0, "", << >>) EXCEPT
                      !.results = progress,
                      !.stored = {e.key : e \in saved \ existing}]
       /\ UNCHANGED <<db, run, tokenvars, arg, ret, pipevars>>

\* The keys of a scrape_results.json found at start: lowercased usernames.
CacheKeys == {lowercase(stripped(u)) : u \in Names} \ {<< >>}

Caches ==
  {{[key |-> key, data |-> OldRecord] : key \in ks} :
     ks \in {c \in SUBSET CacheKeys : Cardinality(c) <= MaxCached}}

\* The service runs on the cache file it finds.
CacheInit ==
  /\ QuietPipeline /\ arg = << >> /\ ret = << >> /\ NoTokens
  /\ db \in Caches /\ existing = {} /\ reply = NoReply /\ run = NoRun

CacheNext ==
  \/ get_user
  \/ delete_user
  \/ run_toxicity
  \/ post_scrape

CacheSpec == CacheInit /\ [][CacheNext]_vars

\* The two programs that fill a cache, neither finding a file of its own.
FillInit ==
  /\ QuietPipeline /\ arg = << >> /\ ret = << >> /\ NoTokens
  /\ NoCache

FillNext ==
  \/ precompute_main
  \/ post_scrape
  \/ post_scrape_batch
  \/ get_user

FillSpec == FillInit /\ [][FillNext]_vars

\* A request's username addresses a key: blanks around it apart, it is the
\* key letter by letter, in either case.
same_letter(c, d) == c = d \/ {c, d} = {"a", "A"}

addresses(username, key) ==
  \E lo \in 1..Len(username) :
    /\ lo + Len(key) - 1 <= Len(username)
    /\ \A k \in 1..Len(username) :
         IF k >= lo /\ k < lo + Len(key)
         THEN username[k] # " " /\ same_letter(username[k], key[k - lo + 1])
         ELSE username[k] = " "

C29_Scrapes ==
  reply.op \in {"scrape", "batch"} =>
    \A k \in 1..Len(reply.results) :
      LET r == reply.results[k]
      IN r.scraper = "record" =>
           /\ r.status = "success"
           /\ reply.op = "scrape" =>
                reply.status \in {"success", "success_with_toxicity_pending"}
           /\ get_user_data(db, stripped(r.username)) = <<NewRecord>>

\* C30: GET and DELETE /user/{username} act on the entry that the username
\* addresses whatever its case: GET answers it as "cached" and leaves the
\* cache as it is; DELETE removes that entry and no other; both answer 404
\* and leave the cache as it is when there is no such entry; no other request
\* removes an entry.
C30_Lifecycle ==
  [][/\ \A key \in CacheKeys :
          addresses(reply'.username, key) =>
            /\ reply'.op = "get" =>
                 /\ db' = db
                 /\ IF has(db, key)
                    THEN /\ reply'.code = 200 /\ reply'.status = "cached"
                         /\ reply'.data = <<(CHOOSE e \in db : e.key = key).data>>
                    ELSE reply'.code = 404
            /\ reply'.op = "delete" =>
                 IF has(db, key)
                 THEN /\ reply'.code = 200
                      /\ db' = {e \in db : e.key # key}
                 ELSE reply'.code = 404 /\ db' = db
     /\ reply'.op # "delete" => keys(db) \subseteq keys(db')]_vars

\* DELETE /user/A has removed the entry "a" and another entry is still there.
C30_Witness ==
  /\ reply.op = "delete" /\ reply.username = <<"A">> /\ reply.code = 200
  /\ ~has(db, <<"a">>)
  /\ has(db, <<"a", "a">>)

\* ------------------------------------------------- gh, the REST helper
\* requests, sleeps and the response of one call of gh (judge.py 105-116),
\* kept in gq and limits; the caller is get_auth_user, which calls
\* raise_for_status on what gh returns (121-122), or a phase, which reads
\* status_code.
retries == 3

GhStatuses == {200, 201, 202, 403, 404, 422, 429, 500, 502, 503}
GhInputs ==
  {in \in [caller : {"get_auth_user", "phase"}, method : {"GET", "POST", "PATCH"}] :
     in.caller = "get_auth_user" => in.method = "GET"}

\* wait = 2 ** attempt, in seconds (judge.py 111).
gh_wait_constant(attempt) == ONE_SECOND
gh_wait(attempt) == ONE_SECOND * pow2(attempt)

\* `return resp` (114, 116) and what the caller makes of it.
gh_return(status) ==
  /\ gq' = [gq EXCEPT !.pc = "returned", !.status = status, !.requests = @ + 1]
  /\ ret' = <<[status |-> status, requests |-> gq.requests + 1,
               raised |-> arg.caller = "get_auth_user" /\ raise_for_status(status)]>>

\* One pass of the loop up to the sleep or the return (108-114).
gh_request ==
  /\ gq.pc = "idle" /\ ret = << >>
  /\ gq.attempt < retries
  /\ \E status \in GhStatuses :
       IF transient(status)
       THEN /\ gq' = [gq EXCEPT !.pc = "sleep", !.status = status,
                                !.requests = @ + 1, !.wait = gh_wait(gq.attempt)]
            /\ UNCHANGED ret
       ELSE gh_return(status)
  /\ UNCHANGED <<tokens, token_cycle, token_cooldowns, clock, limits>>
  /\ UNCHANGED <<arg, pipevars, cachevars>>

\* time.sleep(wait) ends and `continue` takes the next attempt; after the
\* last one the loop is left and the last response is returned (112-116).
gh_sleep_done ==
  /\ gq.pc = "sleep"
  /\ limits' = limits \cup {[attempt |-> gq.attempt, wait |-> gq.wait]}
  /\ IF gq.attempt + 1 < retries
     THEN /\ gq' = [gq EXCEPT !.pc = "idle", !.attempt = @ + 1, !.wait = 0]
          /\ UNCHANGED ret
     ELSE /\ gq' = [gq EXCEPT !.pc = "returned", !.attempt = @ + 1, !.wait = 0]
          /\ ret' = <<[status |-> gq.status, requests |-> gq.requests,
                       raised |-> arg.caller = "get_auth_user"
                                  /\ raise_for_status(gq.status)]>>
  /\ UNCHANGED <<tokens, token_cycle, token_cooldowns, clock>>
  /\ UNCHANGED <<arg, pipevars, cachevars>>

GhInit == Quiet /\ arg \in GhInputs /\ ret = << >>

GhNext == gh_request \/ gh_sleep_done

GhSpec == GhInit /\ [][GhNext]_vars

\* C31 (as stated): a call of gh whose requests were all answered 502, 503
\* or 429 ends with an error raised to the calling phase.
C31_Raises ==
  (ret # << >> /\ transient(ret[1].status)) => ret[1].raised

\* C31 (amended): gh makes at most `retries` requests; it sleeps 1, 2 and 4
\* seconds after the first, second and third response with 502, 503 or 429
\* and after no other; it ends with such a status only after `retries`
\* requests, and then returns that response: nothing is raised unless the
\* caller is get_auth_user, which raises for every status from 400 on.
C31_Returns ==
  /\ gq.requests <= retries
  /\ limits = {[attempt |-> a, wait |-> w] :
                 <<a, w>> \in {<<0, 1 * ONE_SECOND>>, <<1, 2 * ONE_SECOND>>,
                               <<2, 4 * ONE_SECOND>>} \cap
                              ((0..(gq.attempt - 1)) \X (1..(4 * ONE_SECOND)))}
  /\ ret # << >> =>
       /\ ret[1].requests = Cardinality(limits) + (IF transient(ret[1].status) THEN 0 ELSE 1)
       /\ transient(ret[1].status) => ret[1].requests = retries
       /\ ret[1].raised <=> (arg.caller = "get_auth_user" /\ ret[1].status >= 400)

\* A phase has got the third 503 back from gh as a response.
C31_Witness ==
  /\ ret # << >> /\ arg.caller = "phase"
  /\ ret[1].status = 503 /\ ret[1].requests = retries /\ ~ret[1].raised
  /\ Cardinality(limits) = retries

\* ----------------------------------------------- what each phase writes
\* The keys that the assignments of a phase function set in a user's entry
\* (judge.py 186-190, 318-319, 360-361, 477-479, 496-500).
own_fields(p) ==
  CASE p = "fork" -> {"fork_name", "repo_name", "error"}
    [] p = "pr" -> {"pr_number", "default_branch"}
    [] p = "comment" -> {"comment_posted", "comment_time"}
    [] p = "poll" -> {"response_parsed", "result", "raw_response"}
    [] OTHER -> {}

\* The keys in which two entries differ.
changed(a, b) == {f \in DOMAIN a : a[f] # b[f]}

\* C32: a step of a running phase function changes, in the state dict and in
\* judge_state.json, only that phase's own keys (fork: fork_name, repo_name,
\* error; pr: pr_number, default_branch; comment: comment_posted,
\* comment_time; poll: response_parsed, result, raw_response; report and
\* export: none), in the dict only in the entry of the user the step works
\* for; what is written to the file is the dict.
C32_Frame ==
  [][/\ (mode # "idle" /\ mode' # "idle") =>
          \A u \in Users :
            /\ changed(state[u], state'[u]) \subseteq own_fields(phase)
            /\ changed(state[u], state'[u]) # {} => u = who'
     /\ disk' # disk =>
          /\ disk' = state
          /\ \A u \in Users : changed(disk[u], disk'[u]) \subseteq own_fields(phase)]_vars

\* phase_pr has written the PR of a user whose entry holds the error of an
\* earlier failed fork, and another user's entry holds a fork.
C32_Witness ==
  /\ phase = "pr" /\ pc = "save" /\ who \in Users
  /\ state[who].pr_number # 0 /\ disk[who].pr_number = 0
  /\ state[who].error = "fork_failed"
  /\ \E v \in Users \ {who} : state[v].fork_name # ""

\* ------------------------------------------- precompute.main, step by step
\* What scrape_user does for one username: returns a record, returns None
\* or raises.
ScrapeResults == {"record", "None", "raised"}

\* The precomputed.json a run finds: written by earlier runs, its keys are
\* stripped usernames, no two equal up to case.
Stored == {stripped(u) : u \in Names} \ {<< >>}

Precomputed ==
  {{[key |-> key, data |-> OldRecord] : key \in ks} :
     ks \in {c \in SUBSET Stored :
               /\ Cardinality(c) <= MaxCached
               /\ \A k1 \in c, k2 \in c : lowercase(k1) = lowercase(k2) => k1 = k2}}

\* precompute.py 511: the username is in the file already.
skips_as_spelled(username, existing_lower) == username \in existing_lower
skips(username, existing_lower) == lowercase(username) \in existing_lower

\* main() up to its loop (499-508) on a usernames.txt of up to MaxBatch
\* lines.
main_begin ==
  /\ run.pc = "none"
  /\ \E lines \in SeqsUpTo(Names, MaxBatch) :
       run' = [pc |-> "loop", usernames |-> load_usernames(lines, 1, {}), k |-> 1,
               existing |-> existing,
               existing_lower |-> {lowercase(key) : key \in keys(existing)},
               attempts |-> << >>]
  /\ UNCHANGED <<db, existing, reply, tokenvars, arg, ret, pipevars>>

\* One iteration of the loop up to its `continue` or to the assignment at
\* 525 (510-525).
main_user ==
  /\ run.pc = "loop" /\ run.k <= Len(run.usernames)
  /\ LET username == run.usernames[run.k]
     IN IF skips(username, run.existing_lower)
        THEN run' = [run EXCEPT !.k = @ + 1]
        ELSE \E result \in ScrapeResults :
               LET tried == Append(run.attempts, [username |-> username, result |-> result])
               IN IF result # "record"
                  THEN run' = [run EXCEPT !.k = @ + 1, !.attempts = tried]
                  ELSE run' = [run EXCEPT !.pc = "save", !.attempts = tried,
                                          !.existing = store(@, username, NewRecord)]
  /\ UNCHANGED <<db, existing, reply, tokenvars, arg, ret, pipevars>>

\* save(existing) (526) and the end of the iteration.
main_save ==
  /\ run.pc = "save"
  /\ existing' = run.existing
  /\ run' = [run EXCEPT !.pc = "loop", !.k = @ + 1]
  /\ UNCHANGED <<db, reply, tokenvars, arg, ret, pipevars>>

\* main() returns after the loop, or the process is terminated from outside
\* at any point.
main_end ==
  /\ run.pc # "none"
  /\ run' = NoRun
  /\ UNCHANGED <<db, existing, reply, tokenvars, arg, ret, pipevars>>

ResumeInit ==
  /\ QuietPipeline /\ arg = << >> /\ ret = << >> /\ NoTokens
  /\ db = {} /\ reply = NoReply /\ run = NoRun
  /\ existing \in Precomputed

ResumeNext == main_begin \/ main_user \/ main_save \/ main_end

ResumeSpec == ResumeInit /\ [][ResumeNext]_vars

\* The usernames a run has called scrape_user for.
attempted(r) == {r.attempts[k].username : k \in 1..Len(r.attempts)}

\* C33: precompute.main calls scrape_user for a username only if no key of
\* precomputed.json equals it up to case and only if it has not called it in
\* this run for a username equal up to case, and only when every record it
\* holds is in the file; the file changes only by gaining the record of the
\* username whose scrape has just returned one, under a new key; every entry
\* of the file stays as it is.
C33_Resumable ==
  [][/\ Len(run'.attempts) > Len(run.attempts) =>
          LET username == run.usernames[run.k]
          IN /\ run'.attempts = Append(run.attempts, run'.attempts[Len(run'.attempts)])
             /\ run'.attempts[Len(run'.attempts)].username = username
             /\ \A key \in keys(existing) : lowercase(key) # lowercase(username)
             /\ \A name \in attempted(run) : lowercase(name) # lowercase(username)
             /\ run.existing = existing
     /\ existing \subseteq existing'
     /\ existing' # existing =>
          /\ run.attempts # << >>
          /\ run.attempts[Len(run.attempts)].result = "record"
          /\ existing' = existing \cup
               {[key |-> run.attempts[Len(run.attempts)].username, data |-> NewRecord]}
          /\ ~has(existing, run.attempts[Len(run.attempts)].username)]_vars

\* A run that found "a" in the file has passed the line "A" without a
\* scrape and has saved the record of the username of the second line.
C33_Witness ==
  /\ run.pc = "loop" /\ run.k = 3
  /\ run.usernames[1] = <<"A">>
  /\ has(existing, <<"a">>) /\ get_all(existing, <<"a">>) = <<OldRecord>>
  /\ ~has(existing, <<"A">>)
  /\ Len(run.attempts) = 1 /\ run.attempts[1].result = "record"
  /\ has(existing, run.attempts[1].username)

\* No credential of the pool is configured twice.
distinct(pool) == \A j \in 1..Len(pool), k \in 1..Len(pool) : pool[j] = pool[k] => j = k

\* C34: when get_next_headers returns while no credential of a pool of
\* distinct credentials is cooling, it returns the credential that follows
\* in the pool, cyclically, the one its last return gave; a retry of a call
\* of graphql over a pool of more than one is then made with another
\* credential than the attempt before it.
C34_RoundRobin ==
  [][(/\ gq.pc = "headers" /\ gq'.pc = "post"
      /\ distinct(tokens)
      /\ \A j \in 1..Len(tokens) : cooldown(token_cooldowns, tokens[j]) <= clock) =>
        /\ gq'.token = <<tokens[token_cycle]>>
        /\ token_cycle' = (token_cycle % Len(tokens)) + 1
        /\ (gq.token # << >> /\ Len(tokens) > 1) => gq'.token # gq.token]_vars

\* The second attempt of a call is about to be posted with the second of two
\* credentials, none ever having cooled.
C34_Witness ==
  /\ gq.pc = "post" /\ gq.attempt = 1
  /\ Len(tokens) = 2 /\ distinct(tokens)
  /\ token_cooldowns = {}
  /\ gq.token = <<tokens[2]>> /\ token_cycle = 1

\* ------------------------------------------- responded and timed out users
\* The request that lists the comments of a PR (judge.py 449).
list_comments == "GET /repos/{fork_name}/issues/{pr_number}/comments"

\* The three keys of a response are as they were.
same_response(a, b) ==
  /\ b.response_parsed = a.response_parsed
  /\ b.result = a.result
  /\ b.raw_response = a.raw_response

\* C35: once response_parsed is set for a user, in judge_state.json or in
\* the dict of a running process, no step changes the user's
\* response_parsed, result or raw_response, whatever the parsed grade, and
\* no step lists the comments of the user's PR.
C35_Absorbing ==
  [][\A u \in Users :
       /\ disk[u].response_parsed => same_response(disk[u], disk'[u])
       /\ (state[u].response_parsed /\ mode # "idle" /\ mode' # "idle") =>
            same_response(state[u], state'[u])
       /\ state[u].response_parsed => ~(who' = u /\ list_comments \in net')]_vars

\* A run of phase_poll is polling one user while the file holds, from a run
\* before, the response of another whose parsed grade is "Pending".
C35_Witness ==
  /\ phase = "poll" /\ pc = "round"
  /\ \E u \in Users, v \in Users :
       /\ disk[u].response_parsed /\ disk[u].result # << >>
       /\ disk[u].result[1].quality_grade = "Pending"
       /\ u \notin pending
       /\ v \in pending /\ who = v /\ list_comments \in net

\* C36: the timeout leaves response_parsed unset beside the placeholder; a
\* run of phase_poll takes every commented user without response_parsed,
\* those with the placeholder included, into its pending list; and when the
\* scan of such a user's comments stops at a comment, the result parsed from
\* it (which for a reply in plain words has the values of the placeholder)
\* takes the place of the placeholder and response_parsed is set.
C36_PolledAgain ==
  [][\A u \in Users :
       /\ (who' = u /\ outcome' = "timed_out") =>
            TimedOut(state'[u]) /\ state'[u].comment_posted
       /\ (phase = "poll" /\ pc = "start" /\ phase' = "poll"
           /\ TimedOut(state[u]) /\ state[u].comment_posted) => u \in pending'
       /\ (TimedOut(state[u]) /\ who' = u /\ outcome' = "ok") =>
            /\ list_comments \in net'
            /\ state'[u].response_parsed
            /\ state'[u].raw_response # << >>
            /\ state'[u].result =
                 <<parse_coderabbit_response(state'[u].raw_response[1].text)>>]_vars

\* A user who had the placeholder in the file at the start of this run has
\* now the result parsed from a comment.
C36_Witness ==
  /\ phase = "poll" /\ pc = "found" /\ outcome = "ok" /\ who \in Users
  /\ TimedOut(disk[who])
  /\ Responded(state[who]) /\ state[who].result # <<Placeholder>>

\* ------------------------------------------------------ the curve's values
\* C37: two users with the same original grade get the same curved grade.
C37_SameGrade ==
  ret # << >> =>
    \A a, b \in 1..Len(arg.maps[1]) :
       (is_graded(a) /\ is_graded(b) /\ grade_in(a) = grade_in(b))
         => grade_out(a) = grade_out(b)

\* The graded users, and those of them that come first and last when the
\* stable sort has put them in order: the first in the dict of those with
\* the lowest grade, the last in the dict of those with the highest.
graded_users == {u \in 1..Len(arg.maps[1]) : is_graded(u)}

worst_ranked ==
  Min({u \in graded_users :
         \A v \in graded_users : GRADE_ORDER[grade_in(u)] <= GRADE_ORDER[grade_in(v)]})

best_ranked ==
  CHOOSE u \in graded_users :
    /\ \A v \in graded_users : GRADE_ORDER[grade_in(u)] >= GRADE_ORDER[grade_in(v)]
    /\ \A v \in graded_users : grade_in(v) = grade_in(u) => v <= u

\* C38: every curved grade is a grade of CURVE_THRESHOLDS; the worst-ranked
\* graded user gets "F", also when no other user is graded; of two or more
\* graded users the best-ranked gets "A".
C38_Range ==
  ret # << >> =>
    /\ \A u \in graded_users :
         \E k \in 1..Len(CURVE_THRESHOLDS) : grade_out(u) = CURVE_THRESHOLDS[k][2]
    /\ graded_users # {} => grade_out(worst_ranked) = "F"
    /\ Cardinality(graded_users) >= 2 => grade_out(best_ranked) = "A"

\* The only graded user, whose grade was "A+", has got "F".
C38_Witness ==
  /\ ret # << >> /\ Len(arg.maps[1]) = 3
  /\ graded_users = {2} /\ grade_in(2) = "A+"
  /\ grade_out(2) = "F"

\* ------------------------------------------- the two worst commits of a scrape
\* The loop of precompute.py 286-291 on the scores of a call: the slices of
\* batch_size texts from index `at` on, put end to end in all_scores.
RECURSIVE extend_from(_, _)
extend_from(in, at) ==
  IF at >= in.n THEN << >>
  ELSE SubSeq(in.results, at + 1, slice_end(at, in.n)) \o extend_from(in, at + batch_size)

\* analyze_toxicity of precompute.py (265-309), its two entries on the worst
\* commit: tox = all_scores["toxicity"], the first index of its maximum, the
\* toxicity at that index and the text at that index (0: "").
worst_by_toxicity(in) ==
  IF in.n = 0 THEN [worst_commit_toxicity |-> 0, worst_commit_msg |-> 0]
  ELSE IF in.failed THEN [worst_commit_toxicity |-> 0, worst_commit_msg |-> 0]
  ELSE LET all_scores == extend_from(in, 0)
           worst_idx == worst_index(all_scores)
       IN [worst_commit_toxicity |-> all_scores[worst_idx][1],
           worst_commit_msg |-> worst_idx]

\* scrape_user of precompute.py from the commit messages on (413-419, 434-435):
\* the two entries of the record and the file worst_commit.json that
\* save_raw_data writes `if worst_commit` (precompute.py 490-492).
scrape_worst(in) ==
  LET toxicity_scores == worst_by_toxicity(in)
      worst_commit == find_worst_commit(in)
  IN [record |-> [worst_commit_toxicity |-> toxicity_scores.worst_commit_toxicity,
                  worst_commit_msg |-> toxicity_scores.worst_commit_msg],
      worst_commit_json |-> save_raw_data(<< >>, << >>, worst_commit).worst_commit]

WorstInit == Quiet /\ arg \in ToxInputs /\ ret = << >>

call_scrape_worst ==
  /\ ret = << >>
  /\ ret' = <<scrape_worst(arg)>>
  /\ UNCHANGED <<arg, pipevars, svcvars>>

WorstNext == call_scrape_worst

WorstSpec == WorstInit /\ [][WorstNext]_vars

\* ---------------------------------------------------------------------- C40
\* C40: within one scrape, whenever worst_commit.json is written, the record
\* names the same commit with the same score: worst_commit_msg is the message
\* of the file and worst_commit_toxicity is its toxicity_score, the maximum
\* over all six axes.
C40_SameWorst ==
  ret # << >> =>
    \A k \in 1..Len(ret[1].worst_commit_json) :
      /\ ret[1].record.worst_commit_msg = ret[1].worst_commit_json[k].message
      /\ ret[1].record.worst_commit_toxicity =
           ret[1].worst_commit_json[k].toxicity_score
      /\ \A q \in pairs :
           arg.results[q[1]][q[2]] <= ret[1].record.worst_commit_toxicity

====
